---- MODULE Spec2Model ----
(***************************************************************************)
(* Model of src/app.py: one generation request handled by                  *)
(* generate_image_with_playwright (lines 149-441) together with            *)
(* wait_for_cdp (87-99) and launch_brave_windows (68-85).                  *)
(*                                                                         *)
(* Time is in milliseconds.  cdp_t is the time elapsed since wait_for_cdp  *)
(* computed its deadline; now is time.time() as read by the polling loops. *)
(* The remote page is the environment: whether the target is closed and    *)
(* the state of the debugging endpoint are variables changed by            *)
(* environment actions; the overlay markup and the img elements on the     *)
(* page are drawn afresh at every poll.                                    *)
(*                                                                         *)
(* Two further specifications look at what surrounds one run: HttpSpec at  *)
(* the three HTTP handlers that call the function (what they pass to it    *)
(* and what they make of its result), RaceSpec at two requests running     *)
(* against the same browser.                                               *)
(***************************************************************************)
EXTENDS Integers, Sequences, FiniteSets, TLC

VARIABLES
    pc,                 \* position of the request in generate_image_with_playwright
    endpoint,           \* environment: state of the debugging endpoint
    cdp_t,              \* ms elapsed since wait_for_cdp set its deadline
    browser,            \* "none" | "attached" | "closed": the RemoteSession
    close_calls,        \* number of browser.close() calls (line 439)
    attach_attempts,    \* number of connect_over_cdp calls
    TIMEOUT,            \* PERPLEXITY_WAIT_MS as read at import (ms)
    now,                \* time.time() in ms
    start,              \* start of the primary loop (line 335)
    last_save,          \* line 336 / 392
    extra_wait_start,   \* line 401; -1 before the extended wait is entered
    existing_images,    \* BaselineImageSet (line 220)
    input_found,        \* line 232 / 314
    sel,                \* line 240: input-locator candidates gone through; 0 outside the loop
    submit_sel,         \* line 288: submit controls gone through; 0 outside the loop
    submitted,          \* line 278
    has_grid_pattern,   \* line 349; dead once the poll's gate has been applied
    generation_started, \* the latch of line 338
    img,                \* line 337
    closed,             \* environment: the target page/session is closed
    outcome,            \* which exit of the function was taken
    ret,                \* the value returned to the caller
    obs,                \* history of what the polls observed (for the properties)
    route,              \* the HTTP entry point serving the request; "none" outside a handler
    hpc,                \* position in the handler
    prompt,             \* the prompt the handler resolved from the payload
    engine_prompt,      \* the argument of generate_image_with_playwright
    image_url,          \* what the engine call gave the handler
    answer,             \* what requests.get of the reference came to
    image_data,         \* what the download gave the handler
    response,           \* the handler's response
    loop,               \* the event loop the handler made: "none" | "open" | "closed"
    tabs,               \* contexts and pages of a browser shared by two requests
    req,                \* the two requests against that browser
    prompt_len,         \* len(prompt_text) of a prompt the typing fallback types
    delay_ms,           \* line 271; -1 before the fallback is entered
    img_elements,       \* line 356 / 404: the query result one scan goes through
    scan_existing,      \* existing_images as that scan finds it
    current_img,        \* line 357 / 368: the candidate of that scan
    scanned             \* the for loop of that scan has ended

vars == <<pc, endpoint, cdp_t, browser, close_calls, attach_attempts,
          TIMEOUT, now, start, last_save, extra_wait_start, existing_images,
          input_found, sel, submit_sel, submitted, has_grid_pattern,
          generation_started, img, closed, outcome, ret, obs,
          route, hpc, prompt, engine_prompt, image_url, answer, image_data, response,
          loop,
          tabs, req, prompt_len, delay_ms,
          img_elements, scan_existing, current_img, scanned>>

\* the state of one run of generate_image_with_playwright
engineVars == <<pc, endpoint, cdp_t, browser, close_calls, attach_attempts,
                TIMEOUT, now, start, last_save, extra_wait_start, existing_images,
                input_found, sel, submit_sel, submitted, has_grid_pattern,
                generation_started, img, closed, outcome, ret, obs>>

\* the state of one HTTP handler
httpVars == <<route, hpc, prompt, engine_prompt, image_url, answer, image_data, response,
              loop>>

\* the state of two requests sharing a browser
raceVars == <<tabs, req>>

\* the state of the typing fallback
typeVars == <<prompt_len, delay_ms>>

\* the state of one scan of a query result
scanVars == <<img_elements, scan_existing, current_img, scanned>>

----------------------------------------------------------------------------
(* Bounds *)

MaxTimeoutS == 2        \* PERPLEXITY_WAIT_MS ranges over 0 .. MaxTimeoutS seconds
MaxImgs == 2            \* img elements on the page at one poll
MaxContexts == 2         \* browser contexts open in the remote browser
MaxPages == 2            \* pages open in one context
MaxBaseline == 1        \* img elements on the page at baseline capture
StartClock == 4000      \* time.time() when the request starts

(* Program constants *)

CDP_TIMEOUT_S == 20     \* wait_for_cdp(cdp_url, timeout_s=20)
CDP_SLEEP_MS == 400     \* time.sleep(0.4)
CDP_PROBE_TIMEOUT_MS == 1000  \* requests.get(url, timeout=1)
POLL_MS == 1000         \* page.wait_for_timeout(1000)
EXTRA_WAIT_S == 15      \* while (time.time() - extra_wait_start) < 15
SAVE_EVERY_S == 3
NumSelectors == 4          \* the four input_selectors of lines 233-238       \* if time.time() - last_save > 3

None == <<>>              \* Python's None (and the empty string): a falsy src
Err == <<"raises">>       \* the call raised instead of returning

----------------------------------------------------------------------------
(* Image references.  A URL is a sequence of parts <<host, path, suffix>>;   *)
(* str.endswith looks at the last part, the CSS test [src*="d"] and the     *)
(* Python test  d in s  look for d among the parts.                         *)

S3Host == "user-gen-media-assets.s3.amazonaws.com"
ImgDlHost == "imagedelivery.net"

U1 == <<S3Host, "a", ".png">>
U2 == <<ImgDlHost, "b", ".jpg">>
U3 == <<S3Host, "c", ".webp">>
U4 == <<"example.org", "d", ".jpeg">>

PageUrls == {U1, U2, U3, U4}

Contains(s, d) == \E i \in 1..Len(s) : s[i] = d

EndsWith(s, suf) == Len(s) > 0 /\ s[Len(s)] = suf

\* a selector that matches every img element
ImgSelectorAny(s) == Len(s) > 0

\* 'img[src*="user-gen-media-assets.s3.amazonaws.com"], img[src*="imagedelivery.net"]'
ImgSelector(s) == Contains(s, S3Host) \/ Contains(s, ImgDlHost)

\* the extension test with one suffix too many
ValidExtensionWebp(s) ==
    EndsWith(s, ".png") \/ EndsWith(s, ".jpg") \/ EndsWith(s, ".jpeg") \/ EndsWith(s, ".webp")

\* src.endswith('.png') or src.endswith('.jpg') or src.endswith('.jpeg')
ValidExtension(s) == EndsWith(s, ".png") \/ EndsWith(s, ".jpg") \/ EndsWith(s, ".jpeg")

(* An img element: src is its source when the query ran, attr is what      *)
(* get_attribute('src') answers afterwards: the source, None (attribute    *)
(* gone) or Err (the call raises).                                         *)
Elems == {[src |-> u, attr |-> u] : u \in PageUrls}
         \cup {[src |-> U1, attr |-> None], [src |-> U2, attr |-> Err]}

SeqsUpTo(n, S) == UNION {[1..k -> S] : k \in 0..n}

\* the lists of img elements one query of the page can answer
ImgLists == SeqsUpTo(MaxImgs, Elems)

\* the lists of img elements on the page before the prompt is submitted
BaselineLists == SeqsUpTo(MaxBaseline, Elems)

\* page.query_selector_all(<the img selector>): the matching elements, in document order
QueryImgs(elems) == SelectSeq(elems, LAMBDA e : ImgSelector(e.src))

\* what the query of a poll (lines 356 and 404) can answer
PollResults == {QueryImgs(elems) : elems \in ImgLists}

\* the target closes while the elements are scanned: every get_attribute
\* from then on raises.  A scan that had fetched a valid new reference
\* before that point has already left the loop, so the closures that matter
\* leave no such reference fetched and end the scan without a candidate:
\* they are modelled by the closure before the first get_attribute of a
\* one-element result.
CloseDuringScan(elems, dies) ==
    [i \in 1..Len(elems) |-> IF dies THEN [elems[i] EXCEPT !.attr = Err] ELSE elems[i]]


RECURSIVE ScanFrom(_, _, _)
\* the for loop of lines 359-371 (and 405-417): the first src that is
\* truthy, not in existing_images and has a valid extension; an element
\* whose get_attribute raises is skipped (except Exception: continue)
ScanFrom(elems, i, existing) ==
    IF i > Len(elems) THEN None
    ELSE LET a == elems[i].attr IN
         IF a # Err /\ a # None /\ a \notin existing /\ ValidExtension(a)
         THEN a
         ELSE ScanFrom(elems, i + 1, existing)

\* the scan without the test  src not in existing_images
FirstValidAny(elems, existing) == ScanFrom(elems, 1, {})

\* a scan that the first new reference ends, whatever its extension
FirstNewIfValid(elems, existing) ==
    LET new == {i \in 1..Len(elems) :
                  elems[i].attr \notin {None, Err} /\ elems[i].attr \notin existing}
    IN IF new = {} THEN None
       ELSE LET k == CHOOSE i \in new : \A j \in new : i <= j
            IN IF ValidExtension(elems[k].attr) THEN elems[k].attr ELSE None

FirstValidNew(elems, existing) == ScanFrom(elems, 1, existing)

RECURSIVE BaselineFrom(_, _, _)
\* lines 221-229: one try around the whole loop, so the first raising
\* get_attribute ends the capture with what was collected so far
BaselineFrom(elems, i, acc) ==
    IF i > Len(elems) THEN acc
    ELSE LET a == elems[i].attr IN
         IF a = Err THEN acc
         ELSE BaselineFrom(elems, i + 1, IF a # None THEN acc \cup {a} ELSE acc)

CaptureBaseline(elems) == BaselineFrom(elems, 1, {})

\* lines 221-229: the source of the element whose get_attribute raised and
\* ended the loop, when the loop had not collected that reference; None
\* when no call raised
BaselineCut(elems) ==
    LET raising == {i \in 1..Len(elems) : elems[i].attr = Err}
    IN IF raising = {} THEN None
       ELSE LET k == CHOOSE i \in raising : \A j \in raising : i <= j
            IN IF elems[k].src \in CaptureBaseline(elems) THEN None ELSE elems[k].src

----------------------------------------------------------------------------
(* The in-progress overlay.  z: what '.pointer-events-none.absolute.inset-0 *)
(* .z-\[5\].grid' matches, af: what 'div[style*="grid-template-columns:     *)
(* repeat(auto-fill"]' matches; "active" is an element that has             *)
(* 'div[style*="opacity:"]' children, "idle" one that has none.             *)

OverlayStates ==
    { [z |-> "absent", af |-> "absent"],
      [z |-> "active", af |-> "absent"],
      [z |-> "idle",   af |-> "absent"],
      [z |-> "absent", af |-> "active"],
      [z |-> "absent", af |-> "idle"],
      [z |-> "idle",   af |-> "active"] }

\* lines 343-353
HasGridPattern(o) ==
    LET grid_overlay == IF o.z # "absent" THEN o.z ELSE o.af
    IN  grid_overlay = "active"

----------------------------------------------------------------------------
(* The debugging endpoint: "down" refuses or times out (requests raises),  *)
(* "non200" answers with another status, "up" answers 200.                 *)

EndpointStates == {"down", "non200", "up"}

\* requests.get against the endpoint: the status code, or -1 when it raises
ProbeStatus(e) == IF e = "up" THEN 200 ELSE IF e = "non200" THEN 503 ELSE -1

\* the status test taking any answer for success
ProbeOkAnyAnswer(status) == status # -1

\* the status test comparing with the wrong code
ProbeOkCreated(status) == status = 201

\* lines 94 and 159: status_code == 200 (a raising probe is caught: not ok)
ProbeOk(status) == status = 200

ProbeDurations == {0, CDP_PROBE_TIMEOUT_MS}

SleepDurations == {POLL_MS, 2 * POLL_MS}

TimeoutChoices == {0, 1000 * MaxTimeoutS}

----------------------------------------------------------------------------
(* What the properties need to remember of a run *)

\* references that are from a recognized hosting domain
FromRecognizedDomain(s) == Contains(s, S3Host) \/ Contains(s, ImgDlHost)

\* references that end in .png, .jpg or .jpeg
HasImageExtension(s) == Len(s) > 0 /\ s[Len(s)] \in {".png", ".jpg", ".jpeg"}

\* the references get_attribute answered for a query result
Fetched(elems) == {elems[i].attr : i \in 1..Len(elems)} \ {None, Err}

\* those of them that are new, from a recognized domain, with an image extension
ValidNewRefs(elems, existing) ==
    {a \in Fetched(elems) \ existing : FromRecognizedDomain(a) /\ HasImageExtension(a)}

\* those of them that are new, from a recognized domain, without an image extension
BadExtRefs(elems, existing) ==
    {a \in Fetched(elems) \ existing : FromRecognizedDomain(a) /\ ~HasImageExtension(a)}

ObsInit(e) ==
    [ platform     |-> "unread", \* what line 156 read: "unread", "win" or "other"
      up_since     |-> IF e = "up" THEN 0 ELSE -1, \* cdp_t when the endpoint last came up
      launched     |-> FALSE,  \* the Popen of launch_brave_windows succeeded
      got200       |-> FALSE,  \* a probe of wait_for_cdp was answered with 200
      good         |-> {},     \* valid new references fetched by the poll just made
      grid         |-> FALSE,  \* the primary poll just made saw the overlay present
      stale        |-> FALSE,  \* the poll just made fetched a baseline reference
      bad_ext      |-> FALSE,  \* the poll just made fetched a new reference of bad extension
      seen_good    |-> FALSE,  \* some poll fetched a valid new reference
      ind          |-> "never",\* loading indicator: "never" seen, "visible", "gone"
      held         |-> FALSE,  \* a primary poll saw the overlay present
      found_phase  |-> "none", \* loop that set img
      found_overlay|-> FALSE,  \* overlay present on the page when img was set
      closed_fail  |-> FALSE,  \* a page operation of polling raised: target closed
      op_failed    |-> FALSE,  \* an exception reached the handler of line 422
      submits      |-> 0,      \* submit actions (click of line 296, Enter of line 307) made
      vis          |-> "unread", \* is_visible of the candidate in hand (line 248)
      touched      |-> FALSE,  \* the candidate in hand was clicked, cleared or written to
      ctl          |-> "none", \* what the submit control last tried came to
      clicked      |-> 0,      \* submit control whose click returned, this candidate
      enter        |-> FALSE,  \* the Enter of line 307 was pressed, this candidate
      first_match  |-> None,   \* first open page whose URL matches, when the scan was made
      page         |-> None,   \* the page the resolver settled on
      opened       |-> 0,      \* new_page calls made (line 203)
      cut          |-> None ]  \* reference on the page whose read ended the baseline
                               \* capture; forgotten at the first poll not finding it

\* the record of one poll
ObsPoll(o, q, existing) ==
    [o EXCEPT !.good = ValidNewRefs(q, existing),
              !.stale = Fetched(q) \cap existing # {},
              !.bad_ext = BadExtRefs(q, existing) # {},
              !.seen_good = @ \/ ValidNewRefs(q, existing) # {}]

\* forgetting the poll just made
ObsClear(o) == [o EXCEPT !.good = {}, !.grid = FALSE, !.stale = FALSE, !.bad_ext = FALSE]

\* forgetting the bootstrap, whose locals are gone once the attach is made
ObsAttach(o) ==
    [o EXCEPT !.platform = "unread", !.up_since = -1, !.launched = FALSE, !.got200 = FALSE]

\* the same when the attach failed and the request ends there
ObsAttachFailed(o) == [o EXCEPT !.up_since = -1, !.launched = FALSE, !.got200 = FALSE]

\* forgetting the submission loop once the request has left the controller
ObsSubmitted(o) ==
    [o EXCEPT !.submits = 0, !.vis = "unread", !.touched = FALSE, !.ctl = "none",
              !.clicked = 0, !.enter = FALSE]

\* forgetting the page resolver once the baseline has been captured
ObsResolved(o) == [o EXCEPT !.first_match = None, !.page = None, !.opened = 0]

\* a new candidate is taken in hand
ObsCandidate(o) ==
    [o EXCEPT !.vis = "unread", !.touched = FALSE, !.ctl = "none",
              !.clicked = 0, !.enter = FALSE]

\* no handler is looked at
HttpIdle ==
    /\ route = "none"
    /\ hpc = "idle"
    /\ prompt = <<>>
    /\ engine_prompt = <<>>
    /\ image_url = <<>>
    /\ answer = <<>>
    /\ image_data = <<>>
    /\ response = <<>>
    /\ loop = "none"

\* no second request is looked at
RaceIdle ==
    /\ tabs = <<>>
    /\ req = <<>>

\* the typing fallback is not looked at
TypeIdle ==
    /\ prompt_len = 0
    /\ delay_ms = -1

\* no scan is looked at on its own
ScanIdle ==
    /\ img_elements = <<>>
    /\ scan_existing = {}
    /\ current_img = None
    /\ scanned = FALSE

Init ==
    /\ HttpIdle
    /\ RaceIdle
    /\ TypeIdle
    /\ ScanIdle
    /\ pc = "start"
    /\ endpoint \in EndpointStates
    /\ cdp_t = 0
    /\ browser = "none"
    /\ close_calls = 0
    /\ attach_attempts = 0
    /\ TIMEOUT \in TimeoutChoices
    /\ now = StartClock
    /\ start = -1
    /\ last_save = 0
    /\ extra_wait_start = -1
    /\ existing_images = {}
    /\ input_found = FALSE
    /\ sel = 0
    /\ submit_sel = 0
    /\ submitted = FALSE
    /\ has_grid_pattern = FALSE
    /\ generation_started = FALSE
    /\ img = None
    /\ closed = FALSE
    /\ outcome = "none"
    /\ ret = None
    /\ obs = ObsInit(endpoint)

pollVars == <<TIMEOUT, now, start, last_save, extra_wait_start, existing_images,
              input_found, sel, submit_sel, submitted, has_grid_pattern, generation_started, img, closed>>

cdpVars == <<endpoint, cdp_t>>

----------------------------------------------------------------------------
(* Bootstrap and attach: lines 155-177 *)

\* a bootstrap that launches on every platform
NeedsLaunchAnyPlatform(win, ok) == ~ok

\* lines 156 and 163: the launch is made on Windows only, when the probe failed
NeedsLaunch(win, ok) == win /\ ~ok

\* lines 156-162: the liveness probe, made on Windows only
ProbeEndpoint ==
    /\ pc = "start"
    /\ \E win \in BOOLEAN :           \* sys.platform.startswith("win")
         /\ pc' = IF NeedsLaunch(win, ProbeOk(ProbeStatus(endpoint)))
                  THEN "launch" ELSE "connect"
         /\ obs' = [obs EXCEPT !.platform = IF win THEN "win" ELSE "other"]
    /\ UNCHANGED <<cdpVars, browser, close_calls, attach_attempts, pollVars, outcome, ret>>
    /\ UNCHANGED <<httpVars, raceVars, typeVars, scanVars>>

\* initialize_brave_connection, lines 1187-1214: what the start-up check
\* returns, given the platform, the status of its probe and the answer of
\* wait_for_cdp after a launch
InitializeBraveConnection(win, status, waited) ==
    IF ProbeOk(status) THEN TRUE
    ELSE IF win THEN waited
    ELSE FALSE

\* a launch whose failure to spawn ends the request on the spot
AfterLaunchSpawnedOnly(spawned) == IF spawned THEN "wait_cdp" ELSE "done"

\* lines 76-85 and 164-166: Popen returned or its exception was logged by
\* the handler of line 84; either way launch_brave_windows returns and
\* wait_for_cdp is called
AfterLaunch(spawned) == "wait_cdp"

\* lines 163-164 and launch_brave_windows: a failing Popen is logged, not raised
LaunchBrave ==
    /\ pc = "launch"
    /\ \E spawned \in BOOLEAN :
         /\ obs' = [obs EXCEPT !.launched = spawned]
         /\ pc' = AfterLaunch(spawned)
    /\ cdp_t' = 0
    /\ UNCHANGED <<endpoint, browser, close_calls, attach_attempts, pollVars,
                   outcome, ret>>
    /\ UNCHANGED <<httpVars, raceVars, typeVars, scanVars>>

\* the deadline of wait_for_cdp's default, timeout_s=10
BeforeDeadlineDefault(t) == t < 10 * 1000

\* line 91: time.time() < deadline
BeforeDeadline(t) == t < CDP_TIMEOUT_S * 1000

\* wait_for_cdp, lines 91-97 and 99: the loop test and one probe
WaitCdpProbe ==
    /\ pc = "wait_cdp"
    /\ IF BeforeDeadline(cdp_t)
       THEN /\ obs' = [obs EXCEPT !.got200 = @ \/ endpoint = "up"]
            /\ IF ProbeOk(ProbeStatus(endpoint))
               THEN /\ pc' = "connect"           \* return True
                    /\ UNCHANGED <<cdp_t, outcome, ret>>
               ELSE /\ \E d \in ProbeDurations : cdp_t' = cdp_t + d
                    /\ pc' = "cdp_sleep"
                    /\ UNCHANGED <<outcome, ret>>
       ELSE /\ pc' = "done"                      \* return False; line 168
            /\ outcome' = "CdpTimeout"
            /\ ret' = None
            /\ UNCHANGED <<cdp_t, obs>>
    /\ UNCHANGED <<endpoint, browser, close_calls, attach_attempts, pollVars>>
    /\ UNCHANGED <<httpVars, raceVars, typeVars, scanVars>>

\* line 98
CdpSleep ==
    /\ pc = "cdp_sleep"
    /\ cdp_t' = cdp_t + CDP_SLEEP_MS
    /\ pc' = "wait_cdp"
    /\ UNCHANGED <<endpoint, browser, close_calls, attach_attempts,
                   pollVars, outcome, ret, obs>>
    /\ UNCHANGED <<httpVars, raceVars, typeVars, scanVars>>

\* environment: the endpoint changes state while the request has not attached
EndpointChanges ==
    /\ pc \in {"start", "launch", "wait_cdp", "cdp_sleep", "connect"}
    /\ \E e \in EndpointStates \ {endpoint} :
         /\ endpoint' = e
         /\ obs' = [obs EXCEPT !.up_since = IF e = "up" THEN cdp_t ELSE -1]
    /\ UNCHANGED <<pc, cdp_t, browser, close_calls, attach_attempts,
                   pollVars, outcome, ret>>
    /\ UNCHANGED <<httpVars, raceVars, typeVars, scanVars>>

\* connect_over_cdp succeeds or raises; it cannot succeed against an endpoint
\* that does not answer
AttachResults(e) == IF e = "up" THEN BOOLEAN ELSE {FALSE}

\* an attach whose failure is logged without the return of line 177
AfterAttachUnchecked(ok) == "resolve"

\* lines 174-179: on to the page resolver, or return None
AfterAttach(ok) == IF ok THEN "resolve" ELSE "done"

\* lines 170-177; the locals of wait_for_cdp are gone by now
Connect ==
    /\ pc = "connect"
    /\ attach_attempts' = attach_attempts + 1
    /\ cdp_t' = 0
    /\ \E ok \in AttachResults(endpoint) :
         /\ obs' = IF ok THEN ObsAttach(obs) ELSE ObsAttachFailed(obs)
         /\ browser' = IF ok THEN "attached" ELSE browser
         /\ outcome' = IF ok THEN outcome ELSE "ConnectFailed"
         /\ ret' = IF ok THEN ret ELSE None
         /\ pc' = AfterAttach(ok)
    /\ UNCHANGED <<endpoint, close_calls, pollVars>>
    /\ UNCHANGED <<httpVars, raceVars, typeVars, scanVars>>

----------------------------------------------------------------------------
(* Page resolution, baseline capture and submission: lines 179-332 *)

\* an exception that leaves the function through the finally of line 437
Raise ==
    /\ outcome' = "Raised"
    /\ ret' = Err
    /\ pc' = "finally"

\* line 36, and URLs of pages open in the browser, as sequences of parts
PERPLEXITY_URL ==
    <<"https://www.", "perplexity.ai", "/search", "/a-split-image-on-one-side-glea-hNLvcaq8QUuuS6w.r.n9qA">>
HomeUrl == <<"https://www.", "perplexity.ai", "/">>
OtherUrl == <<"https://", "example.org", "/">>

\* p.url of an open page: an attribute of the page object, read without a
\* call to the browser, so the handler of line 187 has nothing to catch
OpenPageUrls == {HomeUrl, OtherUrl}

\* Python's "needle in s" on strings
SubSeqOf(needle, s) ==
    \E i \in 0..(Len(s) - Len(needle)) :
        \A k \in 1..Len(needle) : s[i + k] = needle[k]

\* line 189
MatchesTarget(url) ==
    url # None /\ ( SubSeqOf(PERPLEXITY_URL, url) \/
                    SubSeqOf(<<"perplexity.ai", "/search">>, url) \/
                    SubSeqOf(<<"perplexity.ai">>, url) )

\* lines 184-191: the first page of the context that matches, 0 if none
RECURSIVE ScanPages(_, _)
ScanPages(pages, j) ==
    IF j > Len(pages) THEN 0
    ELSE IF MatchesTarget(pages[j]) THEN j
    ELSE ScanPages(pages, j + 1)

\* lines 183-193: found_page as <<context, page>>, None if no page matches
RECURSIVE ScanContexts(_, _)
ScanContexts(contexts, i) ==
    IF i > Len(contexts) THEN None
    ELSE IF ScanPages(contexts[i], 1) # 0 THEN <<i, ScanPages(contexts[i], 1)>>
    ELSE ScanContexts(contexts, i + 1)

\* browser.contexts and their pages when the scan is made; nothing is
\* awaited in lines 183-193, so the lists do not change under the scan
BrowserContexts == SeqsUpTo(MaxContexts, SeqsUpTo(MaxPages, OpenPageUrls))

\* the page opened at lines 202-204
NewPage == <<"new">>

\* a resolver that opens a page of its own for every request
OpensNewPageAlways(found_page) == TRUE

\* lines 197 and 200
OpensNewPage(found_page) == found_page = None

\* the open pages whose URL matches, and the first of them in the order of
\* enumeration: contexts, then pages
MatchingPages(contexts) ==
    {p \in (1..MaxContexts) \X (1..MaxPages) :
        /\ p[1] <= Len(contexts)
        /\ p[2] <= Len(contexts[p[1]])
        /\ MatchesTarget(contexts[p[1]][p[2]])}

Precedes(p, q) == p[1] < q[1] \/ (p[1] = q[1] /\ p[2] < q[2])

FirstMatching(contexts) ==
    IF MatchingPages(contexts) = {} THEN None
    ELSE CHOOSE p \in MatchingPages(contexts) :
           \A q \in MatchingPages(contexts) : p = q \/ Precedes(p, q)

\* lines 180-217: reuse a matching page or open one; the awaits of lines
\* 202-217 are outside any try, so a failure there leaves the function
ResolvePage ==
    /\ pc = "resolve"
    /\ \E contexts \in BrowserContexts :
         LET found_page == ScanContexts(contexts, 1)
             seen == [obs EXCEPT !.first_match = FirstMatching(contexts)]
         IN IF OpensNewPage(found_page)
            THEN \/ /\ ~closed
                    /\ obs' = [seen EXCEPT !.page = NewPage, !.opened = 1]
                    /\ pc' = "baseline"
                    /\ UNCHANGED <<outcome, ret>>
                 \/ /\ \E n \in {0, 1} : obs' = [seen EXCEPT !.opened = n]
                    /\ Raise
            ELSE \/ /\ ~closed
                    /\ obs' = [seen EXCEPT !.page = found_page]
                    /\ pc' = "baseline"
                    /\ UNCHANGED <<outcome, ret>>
                 \/ /\ obs' = [seen EXCEPT !.page = found_page]
                    /\ Raise
    /\ UNCHANGED <<cdpVars, browser, close_calls, attach_attempts, pollVars>>
    /\ UNCHANGED <<httpVars, raceVars, typeVars, scanVars>>

\* lines 219-229
BaselineCapture ==
    /\ pc = "baseline"
    /\ IF closed
       THEN /\ existing_images' = {}
            /\ obs' = ObsResolved(obs)
       ELSE \E elems \in BaselineLists :
              /\ existing_images' = CaptureBaseline(QueryImgs(elems))
              /\ obs' = [ObsResolved(obs) EXCEPT !.cut = BaselineCut(QueryImgs(elems))]
    /\ pc' = "submit"
    /\ UNCHANGED <<cdpVars, browser, close_calls, attach_attempts, TIMEOUT, now, start,
                   last_save, extra_wait_start, input_found, sel, submit_sel, submitted,
                   has_grid_pattern, generation_started, img, closed, outcome, ret>>
    /\ UNCHANGED <<httpVars, raceVars, typeVars, scanVars>>

\* line 341: the test of the primary loop, made on entry and after each sleep
PrimaryLoopOpen(t, since, timeout) == t - since < timeout

PrimaryLoopHead(t, since, timeout) ==
    IF PrimaryLoopOpen(t, since, timeout) THEN "poll_overlay" ELSE "after_primary"

(* What one pass of the input-locator loop (lines 241-323) comes to:        *)
(*   "raises"     query_selector raises (caught at 321)                     *)
(*   "missing"    query_selector finds no element                           *)
(*   "hidden"     is_visible answers False (continue of line 251)           *)
(*   "fails"      an interaction raises before any submit action was made   *)
(*                (caught at 317)                                           *)
(*   "submitted"  a submit action was made and the wait of line 313 passed  *)
(*   "submitted_then_fails"  a submit action was made and the wait of line  *)
(*                313 raised (caught at 317)                                *)
CandidateResults ==
    {"raises", "missing", "hidden", "fails", "submitted", "submitted_then_fails"}

\* line 314: input_found = True is reached only after the wait of line 313
RecordsSubmission(r) == r = "submitted"

\* a loop that gives up after its first candidate
SubmissionLoopGivesUp(k, found) == "submit_end"

\* lines 240 and 315: break on input_found, else on to the next candidate
SubmissionLoopNext(k, found) ==
    IF found \/ k >= NumSelectors THEN "submit_end" ELSE "submit"

\* the four submit_selectors of lines 281-286
NumSubmitSelectors == 4

\* the end of a pass that came to r: lines 314-315, or the continue of lines
\* 251, 319 and 323; the locals of the pass are dead from here on
EndPass(r) ==
    /\ r \in CandidateResults
    /\ input_found' = RecordsSubmission(r)
    /\ submit_sel' = 0
    /\ submitted' = FALSE
    /\ pc' = SubmissionLoopNext(sel', input_found')

\* a loop that goes on with a candidate whatever is_visible answers
ContinuesNever(is_visible) == FALSE

\* lines 249-251: a candidate that is not visible is passed over
Continues(is_visible) == ~is_visible

\* what query_selector of line 242 gives
InputQueries(dead) == IF dead THEN {"raises"} ELSE {"raises", "missing", "found"}

\* lines 240-275: the next candidate is taken in hand: located, checked for
\* visibility, clicked, cleared and written to (JS injection, typing when
\* that fails); every exception is swallowed and ends the pass
SubmitPrompt ==
    /\ pc = "submit"
    /\ sel' = sel + 1
    /\ \E q \in InputQueries(closed) :
         \/ /\ q \in {"raises", "missing"}
            /\ obs' = ObsCandidate(obs)
            /\ EndPass(q)
         \/ /\ q = "found"
            /\ \E is_visible \in BOOLEAN, prepared \in BOOLEAN :
                 IF Continues(is_visible)
                 THEN /\ obs' = [ObsCandidate(obs) EXCEPT !.vis = "no"]
                      /\ EndPass("hidden")
                 ELSE /\ obs' = [ObsCandidate(obs) EXCEPT
                                   !.vis = IF is_visible THEN "yes" ELSE "no",
                                   !.touched = TRUE]
                      /\ IF prepared
                         THEN /\ pc' = "submit_ctl"
                              /\ UNCHANGED <<input_found, submit_sel, submitted>>
                         ELSE EndPass("fails")
    /\ UNCHANGED <<cdpVars, browser, close_calls, attach_attempts, TIMEOUT, now,
                   start, last_save, extra_wait_start, existing_images,
                   has_grid_pattern, generation_started, img, closed, outcome, ret>>
    /\ UNCHANGED <<httpVars, raceVars, typeVars, scanVars>>

\* line 294
Usable(is_enabled, is_visible) == is_enabled /\ is_visible

\* line 289
ControlQueries(dead) == IF dead THEN {"raises"} ELSE {"raises", "missing", "found"}

\* line 288 and the break of line 298: on to the next control, or out of the loop
SubmitLoopNext(k, done) ==
    IF done \/ k >= NumSubmitSelectors THEN "submit_enter" ELSE "submit_ctl"

\* lines 288-300: one submit control; a failing query_selector is caught at
\* 317 and ends the pass, a failing check or click is caught at 299
SubmitControl ==
    /\ pc = "submit_ctl"
    /\ \E q \in ControlQueries(closed) :
         \/ /\ q = "raises"
            /\ obs' = [obs EXCEPT !.ctl = "query_raises"]
            /\ sel' = sel
            /\ EndPass("fails")
         \/ /\ q = "missing"
            /\ obs' = [obs EXCEPT !.ctl = "missing"]
            /\ submit_sel' = submit_sel + 1
            /\ pc' = SubmitLoopNext(submit_sel', FALSE)
            /\ UNCHANGED <<sel, input_found, submitted>>
         \/ /\ q = "found"
            /\ submit_sel' = submit_sel + 1
            /\ UNCHANGED <<sel, input_found>>
            /\ \/ /\ obs' = [obs EXCEPT !.ctl = "check_raises"]
                  /\ pc' = SubmitLoopNext(submit_sel', FALSE)
                  /\ UNCHANGED submitted
               \/ \E is_enabled \in BOOLEAN, is_visible \in BOOLEAN :
                    IF Usable(is_enabled, is_visible)
                    THEN \E clicks \in BOOLEAN :
                           /\ obs' = [obs EXCEPT
                                        !.ctl = IF is_enabled /\ is_visible
                                                THEN (IF clicks THEN "clicked"
                                                      ELSE "click_raises")
                                                ELSE "unusable_clicked",
                                        !.clicked = IF clicks THEN submit_sel' ELSE @,
                                        !.submits = IF clicks THEN @ + 1 ELSE @]
                           /\ submitted' = clicks
                           /\ pc' = SubmitLoopNext(submit_sel', clicks)
                    ELSE /\ obs' = [obs EXCEPT
                                      !.ctl = IF is_enabled /\ is_visible
                                              THEN "usable_skipped" ELSE "unusable"]
                         /\ pc' = SubmitLoopNext(submit_sel', FALSE)
                         /\ UNCHANGED submitted
    /\ UNCHANGED <<cdpVars, browser, close_calls, attach_attempts, TIMEOUT, now,
                   start, last_save, extra_wait_start, existing_images,
                   has_grid_pattern, generation_started, img, closed, outcome, ret>>
    /\ UNCHANGED <<httpVars, raceVars, typeVars, scanVars>>

\* a fallback that presses Enter after a click as well
NeedsEnterAlways(done) == TRUE

\* line 303
NeedsEnter(done) == ~done

\* lines 303-315: the Enter fallback, then the wait of line 313; a failure
\* of either is caught at 317
SubmitEnter ==
    /\ pc = "submit_enter"
    /\ sel' = sel
    /\ IF NeedsEnter(submitted)
       THEN \E pressed \in (IF closed THEN {FALSE} ELSE BOOLEAN) :
              IF pressed
              THEN /\ obs' = [obs EXCEPT !.enter = TRUE, !.submits = @ + 1]
                   /\ \E r \in {"submitted", "submitted_then_fails"} : EndPass(r)
              ELSE /\ obs' = obs
                   /\ EndPass("fails")
       ELSE /\ obs' = obs
            /\ \E r \in (IF closed THEN {"submitted_then_fails"}
                          ELSE {"submitted", "submitted_then_fails"}) : EndPass(r)
    /\ UNCHANGED <<cdpVars, browser, close_calls, attach_attempts, TIMEOUT, now,
                   start, last_save, extra_wait_start, existing_images,
                   has_grid_pattern, generation_started, img, closed, outcome, ret>>
    /\ UNCHANGED <<httpVars, raceVars, typeVars, scanVars>>

\* lines 325-341: InputNotFound, or the unguarded wait of line 332 and the
\* set-up of the primary loop; selector is not read again
SubmissionEnd ==
    /\ pc = "submit_end"
    /\ IF ~input_found
       THEN /\ outcome' = "InputNotFound"
            /\ ret' = None
            /\ pc' = "finally"
            /\ UNCHANGED <<start, sel, obs>>
       ELSE /\ sel' = 0
            /\ obs' = ObsSubmitted(obs)
            /\ \/ /\ ~closed
                  /\ start' = now
                  /\ pc' = PrimaryLoopHead(now, now, TIMEOUT)
                  /\ UNCHANGED <<outcome, ret>>
               \/ /\ Raise
                  /\ UNCHANGED start
    /\ UNCHANGED <<cdpVars, browser, close_calls, attach_attempts, TIMEOUT, now,
                   last_save, extra_wait_start, existing_images, input_found,
                   submit_sel, submitted, has_grid_pattern, generation_started, img,
                   closed>>
    /\ UNCHANGED <<httpVars, raceVars, typeVars, scanVars>>

----------------------------------------------------------------------------
(* Generation Completion Detector: lines 334-435 *)

ClosedMsg == "Target page, context or browser has been closed"
OtherMsg == "Timeout 30000ms exceeded"

\* the handler looking for a text no message carries
IsTargetClosedMsgNever(msg) == msg = "TargetClosedError"

\* line 425: "TargetClosedError" in msg or "has been closed" in msg
IsTargetClosedMsg(msg) == msg = ClosedMsg

\* what a page operation raises, if it raises: a closed target always does
Failure == IF closed THEN ClosedMsg ELSE OtherMsg

\* lines 422-428: an exception raised inside the try of line 340
PollThrow(msg) ==
    /\ obs' = [ObsClear(obs) EXCEPT !.op_failed = TRUE,
                                    !.closed_fail = @ \/ msg = ClosedMsg]
    /\ IF IsTargetClosedMsg(msg)
       THEN outcome' = "Aborted" /\ ret' = None
       ELSE outcome' = "Raised" /\ ret' = Err
    /\ pc' = "finally"

\* the gate without the overlay test
GateIgnoringOverlay(cur, grid) == cur # None

\* the gate with the overlay test inverted
GateRequiringOverlay(cur, grid) == cur # None /\ grid

\* line 374: the completion gate
Gate(cur, grid) == cur # None /\ ~grid

\* lines 343-353
PollOverlay ==
    /\ pc = "poll_overlay"
    /\ \/ /\ ~closed
          /\ \E o \in OverlayStates : has_grid_pattern' = HasGridPattern(o)
          /\ pc' = "poll_images"
          /\ UNCHANGED <<outcome, ret, obs>>
       \/ /\ PollThrow(Failure)
          /\ UNCHANGED has_grid_pattern
    /\ UNCHANGED <<cdpVars, browser, close_calls, attach_attempts, TIMEOUT, now, start,
                   last_save, extra_wait_start, existing_images, input_found, sel, submit_sel, submitted,
                   generation_started, img, closed>>
    /\ UNCHANGED <<httpVars, raceVars, typeVars, scanVars>>

\* whether the target may close during the scan of a query result
DiesChoices(elems) == IF Len(elems) = 1 THEN BOOLEAN ELSE {FALSE}

\* a poll that takes the references it fetched into the baseline
BaselineAbsorbsPoll(existing, q) == existing \cup Fetched(q)

\* lines 356-371: the scan reads existing_images (line 362) and assigns
\* nothing to it, nor does any later line of the function
BaselineAfterPoll(existing, q) == existing

\* lines 356-377: query and scan the images, apply the gate
PollImages ==
    /\ pc = "poll_images"
    /\ \/ /\ ~closed
          /\ \E matched \in PollResults : \E dies \in DiesChoices(matched) :
               LET q == CloseDuringScan(matched, dies)
                   cur == FirstValidNew(q, existing_images)
                   seen == [ObsPoll(obs, q, existing_images)
                               EXCEPT !.grid = has_grid_pattern,
                                      !.held = @ \/ has_grid_pattern,
                                      !.cut = IF Gate(cur, has_grid_pattern) /\ cur = @
                                              THEN @ ELSE None]
               IN  /\ closed' = dies
                   /\ existing_images' = BaselineAfterPoll(existing_images, q)
                   /\ IF Gate(cur, has_grid_pattern)
                      THEN /\ img' = cur
                           /\ pc' = "after_primary"
                           /\ obs' = [seen EXCEPT !.found_phase = "primary",
                                                  !.found_overlay = has_grid_pattern]
                      ELSE /\ img' = img
                           /\ pc' = "poll_indicators"
                           /\ obs' = [seen EXCEPT !.closed_fail = @ \/ dies]
          /\ UNCHANGED <<outcome, ret>>
       \/ /\ PollThrow(Failure)
          /\ UNCHANGED <<img, closed, existing_images>>
    /\ UNCHANGED <<cdpVars, browser, close_calls, attach_attempts, TIMEOUT, now, start,
                   last_save, extra_wait_start, input_found, sel, submit_sel, submitted,
                   has_grid_pattern, generation_started>>
    /\ UNCHANGED <<httpVars, raceVars, typeVars, scanVars>>

\* a latch that is dropped again when the indicator is seen a second time
LatchToggles(started, generating) == (started /\ ~generating) \/ (~started /\ generating)

\* a latch that follows the indicator instead of holding
LatchFollows(started, generating) == generating

\* lines 381-383: the latch
Latch(started, generating) == started \/ generating

\* lines 380-383
PollIndicators ==
    /\ pc = "poll_indicators"
    /\ \/ /\ ~closed
          /\ \E generating_elements \in BOOLEAN :
               /\ generation_started' = Latch(generation_started, generating_elements)
               /\ obs' = [ObsClear(obs) EXCEPT !.ind =
                             IF generating_elements THEN "visible"
                             ELSE IF @ = "never" THEN "never" ELSE "gone"]
          /\ pc' = "poll_screenshot"
          /\ UNCHANGED <<outcome, ret>>
       \/ /\ PollThrow(Failure)
          /\ UNCHANGED generation_started
    /\ UNCHANGED <<cdpVars, browser, close_calls, attach_attempts, TIMEOUT, now, start,
                   last_save, extra_wait_start, existing_images, input_found, sel, submit_sel, submitted,
                   has_grid_pattern, img, closed>>
    /\ UNCHANGED <<httpVars, raceVars, typeVars, scanVars>>

\* a screenshot taken at every poll
ScreenshotDueAlways(t, saved) == TRUE

\* line 386
ScreenshotDue(t, saved) == t - saved > SAVE_EVERY_S * 1000

\* lines 386-394: a failing screenshot is swallowed
PollScreenshot ==
    /\ pc = "poll_screenshot"
    /\ IF ScreenshotDue(now, last_save)
       THEN \/ /\ ~closed
               /\ last_save' = now
               /\ UNCHANGED obs
            \/ /\ UNCHANGED last_save
               /\ obs' = [obs EXCEPT !.closed_fail = @ \/ closed]
       ELSE UNCHANGED <<last_save, obs>>
    /\ pc' = "poll_sleep"
    /\ UNCHANGED <<cdpVars, browser, close_calls, attach_attempts, TIMEOUT, now, start,
                   extra_wait_start, existing_images, input_found, sel, submit_sel, submitted,
                   has_grid_pattern, generation_started, img, closed, outcome, ret>>
    /\ UNCHANGED <<httpVars, raceVars, typeVars, scanVars>>

\* lines 396, 341 and 349
PollSleep ==
    /\ pc = "poll_sleep"
    /\ \/ /\ ~closed
          /\ \E d \in SleepDurations : now' = now + d
          /\ pc' = PrimaryLoopHead(now', start, TIMEOUT)
          /\ has_grid_pattern' = FALSE
          /\ UNCHANGED <<outcome, ret, obs>>
       \/ /\ PollThrow(Failure)
          /\ UNCHANGED <<now, has_grid_pattern>>
    /\ UNCHANGED <<cdpVars, browser, close_calls, attach_attempts, TIMEOUT, start, last_save,
                   extra_wait_start, existing_images, input_found, sel, submit_sel, submitted,
                   generation_started, img, closed>>
    /\ UNCHANGED <<httpVars, raceVars, typeVars, scanVars>>

\* an extended wait whose deadline is never found passed
ExtendedWaitNeverCloses(t, since) == TRUE

\* line 402
ExtendedWaitOpen(t, since) == t - since < EXTRA_WAIT_S * 1000

\* line 402: the test of the extended loop, made on entry and after each sleep
ExtLoopHead(t, since) == IF ExtendedWaitOpen(t, since) THEN "ext_images" ELSE "result"

\* the test of line 399 without the test of img
EntersExtendedWaitAlways(started, found) == started

\* the test of line 399 without the latch
EntersExtendedWaitUnlatched(started, found) == found = None

\* the test of line 399 with  not img  written as  img
EntersExtendedWaitFound(started, found) == started /\ found # None

\* line 399
EntersExtendedWait(started, found) == started /\ found = None

\* lines 398-402
AfterPrimary ==
    /\ pc = "after_primary"
    /\ IF EntersExtendedWait(generation_started, img)
       THEN /\ extra_wait_start' = now
            /\ pc' = ExtLoopHead(now, now)
            /\ obs' = [obs EXCEPT !.held = FALSE]
       ELSE /\ pc' = "result"
            /\ UNCHANGED <<extra_wait_start, obs>>
    /\ UNCHANGED <<cdpVars, browser, close_calls, attach_attempts, TIMEOUT, now, start,
                   last_save, existing_images, input_found, sel, submit_sel, submitted, has_grid_pattern,
                   generation_started, img, closed, outcome, ret>>
    /\ UNCHANGED <<httpVars, raceVars, typeVars, scanVars>>


\* an extended wait that applies the gate of the primary loop
ExtGateChecksOverlay(cur, grid) == cur # None /\ ~grid

\* lines 412-413 and 418-419: any valid new reference ends the extended wait
ExtGate(cur, grid) == cur # None

\* lines 404-419: the overlay is not queried; o is the overlay then on the page
ExtPollImages ==
    /\ pc = "ext_images"
    /\ \/ /\ ~closed
          /\ \E matched \in PollResults : \E dies \in DiesChoices(matched) :
               \E q \in {CloseDuringScan(matched, dies)} :
               \E cur \in {FirstValidNew(q, existing_images)} :
               \E seen \in {ObsPoll(obs, q, existing_images)} :
                   /\ closed' = dies
                   /\ IF cur # None
                      THEN \E o \in OverlayStates :
                             IF ExtGate(cur, HasGridPattern(o))
                             THEN /\ img' = cur
                                  /\ pc' = "result"
                                  /\ obs' = [seen EXCEPT !.found_phase = "extended",
                                                          !.found_overlay = HasGridPattern(o)]
                             ELSE /\ img' = img
                                  /\ pc' = "ext_sleep"
                                  /\ obs' = seen
                      ELSE /\ img' = img
                           /\ pc' = "ext_sleep"
                           /\ obs' = [seen EXCEPT !.closed_fail = @ \/ dies]
          /\ UNCHANGED <<outcome, ret>>
       \/ /\ PollThrow(Failure)
          /\ UNCHANGED <<img, closed>>
    /\ UNCHANGED <<cdpVars, browser, close_calls, attach_attempts, TIMEOUT, now, start,
                   last_save, extra_wait_start, existing_images, input_found, sel, submit_sel, submitted,
                   has_grid_pattern, generation_started>>
    /\ UNCHANGED <<httpVars, raceVars, typeVars, scanVars>>

\* lines 420 and 402
ExtSleep ==
    /\ pc = "ext_sleep"
    /\ \/ /\ ~closed
          /\ \E d \in SleepDurations : now' = now + d
          /\ pc' = ExtLoopHead(now', extra_wait_start)
          /\ obs' = ObsClear(obs)
          /\ UNCHANGED <<outcome, ret>>
       \/ /\ PollThrow(Failure)
          /\ UNCHANGED now
    /\ UNCHANGED <<cdpVars, browser, close_calls, attach_attempts, TIMEOUT, start, last_save,
                   extra_wait_start, existing_images, input_found, sel, submit_sel, submitted,
                   has_grid_pattern, generation_started, img, closed>>
    /\ UNCHANGED <<httpVars, raceVars, typeVars, scanVars>>

\* lines 430-435
Result ==
    /\ pc = "result"
    /\ IF img # None
       THEN outcome' = "Found" /\ ret' = img
       ELSE outcome' = "TimedOut" /\ ret' = None
    /\ pc' = "finally"
    /\ UNCHANGED <<cdpVars, browser, close_calls, attach_attempts, pollVars, obs>>
    /\ UNCHANGED <<httpVars, raceVars, typeVars, scanVars>>

\* an exit that leaves the session open
FinallyWithoutClose ==
    /\ pc = "finally"
    /\ pc' = "done"
    /\ UNCHANGED <<cdpVars, browser, close_calls, attach_attempts, pollVars,
                   outcome, ret, obs>>
    /\ UNCHANGED <<httpVars, raceVars, typeVars, scanVars>>

\* lines 437-441: best-effort close, its own failure swallowed
Finally ==
    /\ pc = "finally"
    /\ close_calls' = close_calls + 1
    /\ \E closes \in BOOLEAN : browser' = IF closes THEN "closed" ELSE browser
    /\ pc' = "done"
    /\ UNCHANGED <<cdpVars, attach_attempts, pollVars, outcome, ret, obs>>
    /\ UNCHANGED <<httpVars, raceVars, typeVars, scanVars>>

----------------------------------------------------------------------------
(* The caller: generate_image, lines 1044-1047, 1164-1170 and 1175-1177 *)

\* what the HTTP client is told for a value returned (or raised, Err) by
\* generate_image_with_playwright
HttpResponse(r) ==
    IF r = Err THEN "UNEXPECTED_ERROR"
    ELSE IF r # None THEN "success"
    ELSE "IMAGE_GENERATION_FAILED"

----------------------------------------------------------------------------
(* Environment *)

\* the tab or the connection is closed from outside
ClosePage ==
    /\ browser = "attached"
    /\ pc \notin {"finally", "done"}
    /\ ~closed
    /\ closed' = TRUE
    /\ UNCHANGED <<pc, cdpVars, browser, close_calls, attach_attempts, TIMEOUT, now, start,
                   last_save, extra_wait_start, existing_images, input_found, sel, submit_sel, submitted,
                   has_grid_pattern, generation_started, img, outcome, ret, obs>>
    /\ UNCHANGED <<httpVars, raceVars, typeVars, scanVars>>

Next ==
    \/ ProbeEndpoint
    \/ LaunchBrave
    \/ WaitCdpProbe
    \/ CdpSleep
    \/ EndpointChanges
    \/ Connect
    \/ ResolvePage
    \/ BaselineCapture
    \/ SubmitPrompt
    \/ SubmitControl
    \/ SubmitEnter
    \/ SubmissionEnd
    \/ PollOverlay
    \/ PollImages
    \/ PollIndicators
    \/ PollScreenshot
    \/ PollSleep
    \/ AfterPrimary
    \/ ExtPollImages
    \/ ExtSleep
    \/ Result
    \/ Finally
    \/ ClosePage

Spec == Init /\ [][Next]_vars

\* the steps of the request itself: every call it makes returns or raises,
\* every sleep ends
RequestStep ==
    \/ ProbeEndpoint
    \/ LaunchBrave
    \/ WaitCdpProbe
    \/ CdpSleep
    \/ Connect
    \/ ResolvePage
    \/ BaselineCapture
    \/ SubmitPrompt
    \/ SubmitControl
    \/ SubmitEnter
    \/ SubmissionEnd
    \/ PollOverlay
    \/ PollImages
    \/ PollIndicators
    \/ PollScreenshot
    \/ PollSleep
    \/ AfterPrimary
    \/ ExtPollImages
    \/ ExtSleep
    \/ Result
    \/ Finally

\* the request is run to its end by the event loop (run_until_complete)
LiveSpec == Init /\ [][Next]_vars /\ WF_vars(RequestStep)

----------------------------------------------------------------------------
(* The HTTP handlers that call the function: generate_image (883-1177),    *)
(* generate_image_raw (691-881) and image_only (588-689), from the point   *)
(* where the prompt has been resolved from the payload, and                *)
(* download_and_encode_image (105-147).                                    *)

\* no run of the function is looked at
EngineIdle ==
    /\ pc = "off"
    /\ endpoint = "down"
    /\ cdp_t = 0
    /\ browser = "none"
    /\ close_calls = 0
    /\ attach_attempts = 0
    /\ TIMEOUT = 0
    /\ now = StartClock
    /\ start = -1
    /\ last_save = 0
    /\ extra_wait_start = -1
    /\ existing_images = {}
    /\ input_found = FALSE
    /\ sel = 0
    /\ submit_sel = 0
    /\ submitted = FALSE
    /\ has_grid_pattern = FALSE
    /\ generation_started = FALSE
    /\ img = None
    /\ closed = FALSE
    /\ outcome = "none"
    /\ ret = None
    /\ obs = ObsInit("down")

Routes == {"/generate-image", "/generate-image-raw", "/image-only"}

\* lines 1025 and 764
MAX_PROMPT_LENGTH == 8000

MaxOver == 2             \* characters by which a prompt exceeds the cap

\* a prompt as runs of equal characters: n times ch
Run(c, k) == [ch |-> c, n |-> k]

\* len(prompt)
RECURSIVE PLen(_)
PLen(p) == IF p = <<>> THEN 0 ELSE Head(p).n + PLen(Tail(p))

\* prompt[:k]
RECURSIVE Take(_, _)
Take(p, k) ==
    IF p = <<>> \/ k = 0 THEN <<>>
    ELSE IF Head(p).n <= k THEN <<Head(p)>> \o Take(Tail(p), k - Head(p).n)
    ELSE <<Run(Head(p).ch, k)>>

\* prompts around the cap; a resolved prompt is not empty
Prompts ==
    {<<Run("a", k)>> : k \in {1, MAX_PROMPT_LENGTH - 1, MAX_PROMPT_LENGTH}} \cup
    {<<Run("a", MAX_PROMPT_LENGTH + k)>> : k \in 1..MaxOver} \cup
    {<<Run("a", MAX_PROMPT_LENGTH - 1), Run("b", k)>> : k \in 1..MaxOver}

\* lines 1026-1027 and 765-766
Truncate(p) == IF PLen(p) > MAX_PROMPT_LENGTH THEN Take(p, MAX_PROMPT_LENGTH) ELSE p

\* what each handler passes to generate_image_with_playwright: cleaned_prompt
\* after lines 1025-1027 (line 1045), post_text after lines 764-766 (line
\* 775), prompt as resolved (line 647)
EnginePrompt(rt, p) == IF rt = "/image-only" THEN p ELSE Truncate(p)

\* a reference the engine can return, and one more with the third extension
U5 == <<ImgDlHost, "e", ".jpeg">>
EngineRefs == {u \in PageUrls \cup {U5} : ImgSelector(u) /\ ValidExtension(u)}

\* what the call of the function comes to: a reference, None, or an exception
EngineResults == EngineRefs \cup {None, Err}

\* Content-Type values, as a type part and a subtype
ImagePng == <<"image/", "png">>
ImageJpeg == <<"image/", "jpeg">>
ImageWebp == <<"image/", "webp">>
TextHtml == <<"text/", "html">>
OctetStream == <<"application/", "octet-stream">>

\* response.headers.get('content-type'), None when the header is missing
ContentTypes == {ImagePng, ImageJpeg, ImageWebp, TextHtml, OctetStream, None}

\* requests.get(image_url, timeout=30): it raises, or gives a response
Answers ==
    {[raises |-> TRUE, status |-> 0, ctype |-> None]} \cup
    {[raises |-> FALSE, status |-> st, ctype |-> h] : st \in {200, 404, 503}, h \in ContentTypes}

\* response.raise_for_status()
RaisesForStatus(status) == status >= 400 /\ status < 600

\* lines 112-113 and 651-652 went through
FetchOk(a) == ~a.raises /\ ~RaisesForStatus(a.status)

\* content_type.startswith('image/')
StartsWithImage(ct) == Len(ct) > 0 /\ ct[1] = "image/"

\* lines 119-127
ContentTypeOf(header, url) ==
    LET content_type == IF header = None THEN ImagePng ELSE header
    IN IF ~StartsWithImage(content_type)
       THEN IF EndsWith(url, ".jpg") \/ EndsWith(url, ".jpeg") THEN ImageJpeg
            ELSE IF EndsWith(url, ".png") THEN ImagePng
            ELSE ImagePng
       ELSE content_type

\* lines 655-660
ImageOnlyContentTypeOf(header, url) ==
    LET content_type == IF header = None THEN ImagePng ELSE header
    IN IF ~StartsWithImage(content_type)
       THEN IF EndsWith(url, ".jpg") \/ EndsWith(url, ".jpeg") THEN ImageJpeg
            ELSE ImagePng
       ELSE content_type

\* download_and_encode_image, lines 105-147: the dict, or None from the
\* handler of line 145
DownloadAndEncode(url, a) ==
    IF FetchOk(a)
    THEN [contentType |-> ContentTypeOf(a.ctype, url),
          dataUri |-> <<"data:", ContentTypeOf(a.ctype, url), ";base64,">>,
          originalUrl |-> url]
    ELSE None

\* a handler's response: status code, the success field, the error code,
\* the message and the media type of the image carried
Resp(st, ok, err, msg, mime) ==
    [status |-> st, success |-> ok, error |-> err, message |-> msg, mimeType |-> mime]

\* a handler that reports a failed download as a failed generation
GenerateImageResponseStrict(url, data) ==
    IF url = Err
    THEN Resp(500, FALSE, "UNEXPECTED_ERROR", "Internal server error", None)
    ELSE IF url # None /\ data # None
    THEN Resp(200, TRUE, "none", "Image generated successfully", data.contentType)
    ELSE Resp(500, FALSE, "IMAGE_GENERATION_FAILED",
              "Failed to generate image - no image URL returned", None)

\* generate_image, lines 1047-1177
GenerateImageResponse(url, data) ==
    IF url = Err
    THEN Resp(500, FALSE, "UNEXPECTED_ERROR", "Internal server error", None)
    ELSE IF url # None
    THEN IF data # None
         THEN Resp(200, TRUE, "none", "Image generated successfully", data.contentType)
         ELSE Resp(200, TRUE, "none", "Image generated but download failed", None)
    ELSE Resp(500, FALSE, "IMAGE_GENERATION_FAILED",
              "Failed to generate image - no image URL returned", None)

\* generate_image_raw, lines 780-873; imageData is null after a failed download
GenerateImageRawResponse(url, data) ==
    IF url # None
    THEN Resp(200, TRUE, "none", "imageData",
              IF data # None THEN data.contentType ELSE None)
    ELSE Resp(500, FALSE, "GENERATION_FAILED", "Failed to generate image", None)

\* image_only, lines 649-689: the image bytes, or a JSON error
ImageOnlyResponse(url, data) ==
    IF url = Err
    THEN Resp(500, FALSE, "INTERNAL_ERROR", "Server error", None)
    ELSE IF url # None
    THEN IF data # None
         THEN Resp(200, TRUE, "none", "binary", data.contentType)
         ELSE Resp(500, FALSE, "INTERNAL_ERROR", "Server error", None)
    ELSE Resp(500, FALSE, "GENERATION_FAILED", "Failed to generate image", None)

RouteResponse(rt, url, data) ==
    IF rt = "/generate-image" THEN GenerateImageResponse(url, data)
    ELSE IF rt = "/generate-image-raw" THEN GenerateImageRawResponse(url, data)
    ELSE ImageOnlyResponse(url, data)

\* a handler with its prompt resolved
HttpInit ==
    /\ EngineIdle
    /\ RaceIdle
    /\ TypeIdle
    /\ ScanIdle
    /\ route \in Routes
    /\ hpc = "resolved"
    /\ prompt \in Prompts
    /\ engine_prompt = None
    /\ image_url = None
    /\ answer = None
    /\ image_data = None
    /\ response = None
    /\ loop = "none"

\* lines 1172-1173 and 680-681: the finally of generate_image and of
\* image_only closes the loop; generate_image_raw (771-778) has no finally
\* and no other line of the module closes a loop
ClosesLoop(rt) == rt \in {"/generate-image", "/image-only"}

\* lines 1024-1045, 764-778 and 647: the cap, the new event loop and the
\* call of the function; generate_image_raw turns an exception of the call
\* into None (776-778)
CallEngine ==
    /\ hpc = "resolved"
    /\ loop' = "open"
    /\ engine_prompt' = EnginePrompt(route, prompt)
    /\ \E r \in EngineResults :
         image_url' = IF route = "/generate-image-raw" /\ r = Err THEN None ELSE r
    /\ hpc' = "returned"
    /\ UNCHANGED <<route, prompt, answer, image_data, response>>
    /\ UNCHANGED <<engineVars, raceVars, typeVars, scanVars>>

\* lines 1051, 782 and 651-660: the reference is fetched
Download ==
    /\ hpc = "returned"
    /\ image_url \notin {None, Err}
    /\ \E a \in Answers :
         /\ answer' = a
         /\ image_data' =
              IF route = "/image-only"
              THEN IF FetchOk(a)
                   THEN [contentType |-> ImageOnlyContentTypeOf(a.ctype, image_url)]
                   ELSE None
              ELSE DownloadAndEncode(image_url, a)
    /\ hpc' = "downloaded"
    /\ UNCHANGED <<route, prompt, engine_prompt, image_url, response, loop>>
    /\ UNCHANGED <<engineVars, raceVars, typeVars, scanVars>>

\* the return of the handler, through its finally where it has one
Respond ==
    /\ \/ hpc = "downloaded"
       \/ hpc = "returned" /\ image_url \in {None, Err}
    /\ response' = RouteResponse(route, image_url, image_data)
    /\ loop' = IF ClosesLoop(route) THEN "closed" ELSE loop
    /\ hpc' = "responded"
    /\ UNCHANGED <<route, prompt, engine_prompt, image_url, answer, image_data>>
    /\ UNCHANGED <<engineVars, raceVars, typeVars, scanVars>>

HttpNext ==
    \/ CallEngine
    \/ Download
    \/ Respond

HttpSpec == HttpInit /\ [][HttpNext]_vars

----------------------------------------------------------------------------
(* Two requests against one browser.  Flask serves each request on its own *)
(* thread; each handler makes its own event loop (1041-1042) and its own   *)
(* connect_over_cdp to the same debugging endpoint, and nothing in the     *)
(* module is a lock.  A request is followed from the page resolver to its  *)
(* outcome, one step for each stage.                                       *)

Requests == {1, 2}

\* page.url of a page between new_page (203) and goto (204)
BlankUrl == <<"about:blank">>

\* a page: its URL, the prompts submitted on it (by request) and the images
\* it has produced for them, oldest first
RacePage(u) == [url |-> u, prompts |-> <<>>, imgs |-> <<>>]

\* p.url for every page of every context
UrlsOf(t) == [i \in 1..Len(t) |-> [j \in 1..Len(t[i]) |-> t[i][j].url]]

\* the browser as the first request finds it: no context, or one context
RaceInit ==
    /\ EngineIdle
    /\ HttpIdle
    /\ TypeIdle
    /\ ScanIdle
    /\ tabs \in {<<>>} \cup
                {<<[j \in 1..Len(c) |-> RacePage(c[j])]>> :
                    c \in SeqsUpTo(MaxPages, OpenPageUrls)}
    /\ req = [r \in Requests |->
                [pc |-> "resolve", page |-> None, existing_images |-> {},
                 img |-> None, outcome |-> "none"]]

\* the page request r works on
PageOf(t, r) == t[req[r].page[1]][req[r].page[2]]

\* lines 180-203: the scan, and new_context/new_page when nothing matched
RaceResolve(r) ==
    /\ req[r].pc = "resolve"
    /\ LET found_page == ScanContexts(UrlsOf(tabs), 1)
       IN IF OpensNewPage(found_page)
          THEN /\ tabs' = Append(tabs, <<RacePage(BlankUrl)>>)
               /\ req' = [req EXCEPT ![r].page = <<Len(tabs) + 1, 1>>, ![r].pc = "goto"]
          ELSE /\ tabs' = tabs
               /\ req' = [req EXCEPT ![r].page = found_page, ![r].pc = "baseline"]
    /\ UNCHANGED <<engineVars, httpVars, typeVars, scanVars>>

\* line 204
RaceGoto(r) ==
    /\ req[r].pc = "goto"
    /\ tabs' = [tabs EXCEPT ![req[r].page[1]][req[r].page[2]].url = PERPLEXITY_URL]
    /\ req' = [req EXCEPT ![r].pc = "baseline"]
    /\ UNCHANGED <<engineVars, httpVars, typeVars, scanVars>>

\* lines 219-229
RaceBaseline(r) ==
    /\ req[r].pc = "baseline"
    /\ req' = [req EXCEPT
                 ![r].existing_images =
                     {PageOf(tabs, r).imgs[k] : k \in 1..Len(PageOf(tabs, r).imgs)},
                 ![r].pc = "submit"]
    /\ UNCHANGED <<tabs, engineVars, httpVars, typeVars, scanVars>>

\* lines 240-315: the prompt is written to the page's input and submitted
RaceSubmit(r) ==
    /\ req[r].pc = "submit"
    /\ tabs' = [tabs EXCEPT ![req[r].page[1]][req[r].page[2]].prompts = Append(@, r)]
    /\ req' = [req EXCEPT ![r].pc = "poll"]
    /\ UNCHANGED <<engineVars, httpVars, typeVars, scanVars>>

\* first image of the page that is not in the baseline, None if there is none
RECURSIVE FirstNewImage(_, _, _)
FirstNewImage(imgs, k, existing) ==
    IF k > Len(imgs) THEN None
    ELSE IF imgs[k] \notin existing THEN imgs[k]
    ELSE FirstNewImage(imgs, k + 1, existing)

\* lines 341-435: a poll that ends the request: an image that is not in the
\* baseline is on the page, or the time is up
RacePoll(r) ==
    /\ req[r].pc = "poll"
    /\ LET cur == FirstNewImage(PageOf(tabs, r).imgs, 1, req[r].existing_images)
       IN req' = [req EXCEPT ![r].img = cur,
                             ![r].outcome = IF cur # None THEN "Found" ELSE "TimedOut",
                             ![r].pc = "done"]
    /\ UNCHANGED <<tabs, engineVars, httpVars, typeVars, scanVars>>

\* the steps of request r
RaceRequest(r) ==
    \/ RaceResolve(r)
    \/ RaceGoto(r)
    \/ RaceBaseline(r)
    \/ RaceSubmit(r)
    \/ RacePoll(r)

\* the application: a page produces the image of its oldest unanswered prompt
PageGenerates ==
    /\ \E i \in 1..Len(tabs) : \E j \in 1..Len(tabs[i]) :
         /\ Len(tabs[i][j].imgs) < Len(tabs[i][j].prompts)
         /\ tabs' = [tabs EXCEPT ![i][j].imgs =
                        Append(@, <<S3Host, tabs[i][j].prompts[Len(@) + 1], ".png">>)]
    /\ UNCHANGED <<req, engineVars, httpVars, typeVars, scanVars>>

RaceNext ==
    \/ \E r \in Requests : RaceResolve(r)
    \/ \E r \in Requests : RaceGoto(r)
    \/ \E r \in Requests : RaceBaseline(r)
    \/ \E r \in Requests : RaceSubmit(r)
    \/ \E r \in Requests : RacePoll(r)
    \/ PageGenerates

RaceSpec == RaceInit /\ [][RaceNext]_vars

----------------------------------------------------------------------------
(* The typing fallback of the prompt injection (lines 267-272), taken when *)
(* the JS paste raises. The prompt counts through its length only.         *)

MaxPromptLen == 1001     \* longest prompt typed; 1000 // len is 0 from 1001 on

\* Python's max and min of two integers
Max2(a, b) == IF a >= b THEN a ELSE b
Min2(a, b) == IF a <= b THEN a ELSE b

\* a delay without the clamp to [5, 20]
DelayMsUnclamped(n) == 1000 \div Max2(1, n)

\* line 271: max(5, min(20, 1000 // max(1, len(prompt_text))))
DelayMs(n) == Max2(5, Min2(20, 1000 \div Max2(1, n)))

TypeInit ==
    /\ EngineIdle
    /\ HttpIdle
    /\ RaceIdle
    /\ ScanIdle
    /\ prompt_len \in 0..MaxPromptLen
    /\ delay_ms = -1

\* lines 269-272: the paste raised, the delay is computed and the prompt typed
TypeFallback ==
    /\ delay_ms = -1
    /\ delay_ms' = DelayMs(prompt_len)
    /\ UNCHANGED <<prompt_len, engineVars, httpVars, raceVars, scanVars>>

TypeNext == TypeFallback

TypeSpec == TypeInit /\ [][TypeNext]_vars

----------------------------------------------------------------------------
(* One scan of a query result on its own: the for loop of lines 359-371    *)
(* (and 405-417), for every query result and every baseline.               *)

\* what existing_images can hold: references the img selector matches
ScanBaselines == SUBSET {u \in PageUrls : ImgSelector(u)}

ScanInit ==
    /\ EngineIdle
    /\ HttpIdle
    /\ RaceIdle
    /\ TypeIdle
    /\ img_elements \in PollResults
    /\ scan_existing \in ScanBaselines
    /\ current_img = None
    /\ scanned = FALSE

\* lines 357-371: current_img is None before the loop and the first valid
\* new src after it
ScanImages ==
    /\ ~scanned
    /\ current_img' = FirstValidNew(img_elements, scan_existing)
    /\ scanned' = TRUE
    /\ UNCHANGED <<img_elements, scan_existing, engineVars, httpVars, raceVars, typeVars>>

ScanNext == ScanImages

ScanSpec == ScanInit /\ [][ScanNext]_vars

----------------------------------------------------------------------------
(* Properties *)

Terminal == {"finally", "done"}

\* C1 as stated: in the primary loop and in the extended wait alike, img is
\* set (Found is produced) only at a poll during which the in-progress
\* overlay is absent from the page.
C1_FoundOnlyWithoutOverlay == obs.found_phase # "none" => ~obs.found_overlay

\* C1 amended: in the primary loop Found is produced only at a poll that saw
\* the overlay absent, and a primary poll that saw the overlay present
\* together with a valid new reference produces no Found and goes on polling.
C1_PrimaryGate ==
    /\ obs.found_phase = "primary" => ~obs.found_overlay
    /\ (obs.grid /\ obs.good # {}) =>
          (pc = "poll_indicators" /\ img = None /\ obs.found_phase = "none")

\* a primary poll saw the overlay present with a valid new reference and went on
C1_Witness == pc = "poll_indicators" /\ obs.grid /\ obs.good # {}

\* C2: a returned reference is from one of the two recognized hosting
\* domains and ends in .png, .jpg or .jpeg, whichever loop found it.
C2_ReturnedRefValid ==
    /\ img # None => (FromRecognizedDomain(img) /\ HasImageExtension(img))
    /\ outcome = "Found" => (FromRecognizedDomain(ret) /\ HasImageExtension(ret))

\* Found at a poll that also fetched a new reference of a bad extension
C2_Witness == outcome = "Found" /\ obs.bad_ext

\* C3: a reference of the BaselineImageSet is never the found or returned
\* reference, also when the page shows it again after the submission.
C3_BaselineNeverFound ==
    /\ img \notin existing_images
    /\ outcome = "Found" => ret \notin existing_images

\* Found at a poll that also fetched a reference of the baseline again
C3_Witness == outcome = "Found" /\ obs.stale /\ existing_images # {}

\* C4: once a page operation of polling has failed because the target is
\* closed, no new poll is begun and the request ends as Aborted, never as
\* TimedOut (nor as Found).
C4_ClosedAborts ==
    obs.closed_fail =>
       /\ pc \in {"poll_indicators", "poll_sleep", "ext_sleep"} \cup Terminal
       /\ pc \in Terminal => (outcome = "Aborted" /\ ret = None)
       /\ outcome \in {"none", "Aborted"}

\* the target closed during the extended wait and the request ended as Aborted
C4_Witness ==
    pc = "done" /\ obs.closed_fail /\ extra_wait_start # -1 /\ outcome = "Aborted"

\* C5: when the primary loop ends by its timeout with the latch unset and
\* nothing found, the outcome is TimedOut, the extended wait is not entered
\* and no page query follows.
C5_NoLatchTimesOut ==
    /\ ~generation_started => pc \notin {"ext_images", "ext_sleep"}
    /\ ( /\ start # -1
         /\ pc \in {"result"} \cup Terminal
         /\ ~generation_started
         /\ obs.found_phase = "none"
         /\ ~obs.op_failed )
       => /\ extra_wait_start = -1
          /\ pc \in Terminal => (outcome = "TimedOut" /\ ret = None)

\* a request that polled, never latched, and timed out at the primary deadline
C5_Witness ==
    /\ pc = "done" /\ outcome = "TimedOut" /\ ~generation_started
    /\ TIMEOUT > 0 /\ now - start >= TIMEOUT

\* C6 as stated: a request that entered the extended wait ends as Found if
\* an extended poll fetched a valid new reference and as TimedOut otherwise.
C6_FoundElseTimedOut ==
    (pc = "done" /\ extra_wait_start # -1) =>
       IF obs.found_phase = "extended" THEN outcome = "Found" ELSE outcome = "TimedOut"

\* C6 amended: with the latch set and the primary loop timed out without a
\* reference the extended wait is entered; it ends as Found(ref) at the
\* first poll, begun before the 15 s deadline, that fetches a valid new
\* reference ref, as TimedOut when the deadline passes without one, and as
\* Aborted or with the error raised when a page operation fails meanwhile.
C6_ExtendedWait ==
    /\ ( /\ start # -1
         /\ pc \in {"result"} \cup Terminal
         /\ generation_started
         /\ obs.found_phase # "primary"
         /\ ~obs.op_failed ) => extra_wait_start # -1
    /\ obs.found_phase = "extended" =>
          /\ img \in obs.good
          /\ now - extra_wait_start < EXTRA_WAIT_S * 1000
          /\ pc \in Terminal => (outcome = "Found" /\ ret = img)
    /\ pc = "ext_sleep" => obs.good = {}
    /\ (outcome = "TimedOut" /\ extra_wait_start # -1) =>
          (img = None /\ now - extra_wait_start >= EXTRA_WAIT_S * 1000)
    /\ (pc = "done" /\ extra_wait_start # -1) =>
          IF obs.op_failed THEN outcome \in {"Aborted", "Raised"}
          ELSE IF obs.found_phase = "extended" THEN outcome = "Found"
          ELSE outcome = "TimedOut"

\* a request that found its reference during the extended wait
C6_Witness == pc = "done" /\ obs.found_phase = "extended" /\ outcome = "Found"

C8_FoundInPrimary ==
    existing_images = {} =>
       /\ (pc = "poll_indicators" /\ obs.good # {}) => obs.grid
       /\ obs.found_phase = "primary" =>
             /\ img \in obs.good
             /\ extra_wait_start = -1
             /\ now - start < TIMEOUT
             /\ pc \in {"after_primary", "result"} \cup Terminal
             /\ pc \in Terminal => (outcome = "Found" /\ ret = img)

\* Found in the primary loop after earlier polls that saw the overlay present
C8_Witness ==
    /\ pc = "done" /\ outcome = "Found" /\ obs.found_phase = "primary"
    /\ existing_images = {} /\ obs.held /\ now > start

C10_UpBeforeDeadlineSucceeds ==
    ~( /\ outcome = "CdpTimeout"
       /\ obs.launched
       /\ obs.up_since >= 0
       /\ obs.up_since < CDP_TIMEOUT_S * 1000 )

\* C10 amended: after a launch, wait_for_cdp returns true, and the attach is
\* attempted next, exactly when one of its probes, issued while the 20 s
\* deadline has not passed, is answered with 200; it returns false, and no
\* attach is attempted, once the deadline has passed without such a probe.
C10_ProbeAnswered ==
    /\ [](obs.got200 => (pc = "connect" /\ outcome = "none"))
    /\ [](outcome = "CdpTimeout" =>
            /\ ~obs.got200
            /\ cdp_t >= CDP_TIMEOUT_S * 1000
            /\ attach_attempts = 0)
    /\ [][(pc = "wait_cdp" /\ pc' = "connect") => obs'.got200]_vars
    /\ [][(pc = "connect" /\ pc' # pc) => attach_attempts' = attach_attempts + 1]_vars

\* the browser was launched, the endpoint came up during the wait, and a
\* probe found it
C10_Witness == pc = "connect" /\ obs.launched /\ obs.got200 /\ obs.up_since > 0

\* C11: a request that attached a session issues exactly one close on it, at
\* its exit and not before, on every exit path (Found, TimedOut, Aborted,
\* InputNotFound, a raised error); a request that attached none issues
\* none; and the close, failing or not, leaves outcome and return value alone.
C11_SessionClosedOnce ==
    /\ [](close_calls <= 1)
    /\ [](browser = "none" => close_calls = 0)
    /\ [](pc # "done" => close_calls = 0)
    /\ []((pc = "done" /\ browser # "none") => close_calls = 1)
    /\ [][pc = "finally" => (outcome' = outcome /\ ret' = ret)]_vars

\* an aborted request whose close failed: one close issued, outcome kept
C11_Witness ==
    pc = "done" /\ outcome = "Aborted" /\ close_calls = 1 /\ browser = "attached"

\* C12 as stated: no exception escapes generate_image_with_playwright; every
\* request ends with an outcome value returned.
C12_NoExceptionEscapes == outcome # "Raised" /\ ret # Err

\* the value line 435 returns for TimedOut
TimedOutValue == None

\* the outcomes that are automation failures
AutomationFailures == {"ConnectFailed", "Raised", "InputNotFound", "Aborted"}

\* C13 as stated: every TimedOut request returns the same value, and no
\* request ending in an automation failure returns that value or gets the
\* HTTP response that value gets.
C13_TimedOutDistinguished ==
    /\ outcome = "TimedOut" => ret = TimedOutValue
    /\ (pc = "done" /\ outcome \in AutomationFailures) =>
          /\ ret # TimedOutValue
          /\ HttpResponse(ret) # HttpResponse(TimedOutValue)

PollPcs == {"poll_overlay", "poll_images", "poll_indicators", "poll_screenshot", "poll_sleep"}
ExtPcs == {"ext_images", "ext_sleep"}

\* C14: with every page operation returning and the clock advancing, every
\* request reaches its end; a primary poll runs only while the elapsed time
\* is below the primary timeout, an extended-wait poll only while less than
\* 15 s of the extended wait have elapsed, a probe of wait_for_cdp is issued
\* only before its deadline, and the input-locator loop makes at most four
\* passes.
C14_Terminates ==
    /\ <>(pc = "done")
    /\ [](pc \in PollPcs => now - start < TIMEOUT)
    /\ [](pc \in ExtPcs => now - extra_wait_start < EXTRA_WAIT_S * 1000)
    /\ [](pc = "cdp_sleep" => cdp_t < CDP_TIMEOUT_S * 1000 + CDP_PROBE_TIMEOUT_MS)
    /\ [](pc = "submit" => sel < NumSelectors)

\* a request that ran both loops past their deadlines and ended
C14_Witness ==
    /\ pc = "done" /\ outcome = "TimedOut"
    /\ extra_wait_start - start > TIMEOUT
    /\ now - extra_wait_start > EXTRA_WAIT_S * 1000

\* the state of the detection state machine
DetState ==
    IF pc \in ExtPcs THEN "ExtendedWait"
    ELSE IF pc \in PollPcs THEN "Polling"
    ELSE IF start = -1 THEN "NotRunning"
    ELSE IF img # None THEN "Found"
    ELSE IF outcome # "none" THEN outcome
    ELSE IF extra_wait_start # -1 THEN "ExtendedWait"
    ELSE "Polling"

\* C15 as stated, its part on the extended wait: no run moves from
\* ExtendedWait to Aborted.
C15_NoAbortFromExtendedWait == ~(extra_wait_start # -1 /\ outcome = "Aborted")

\* the transitions the code makes
DetectorTransitions ==
    { <<"NotRunning", "Polling">> }
    \cup ({"Polling"} \X {"Found", "ExtendedWait", "TimedOut", "Aborted", "Raised"})
    \cup ({"ExtendedWait"} \X {"Found", "TimedOut", "Aborted", "Raised"})

\* C15 amended: the detector's only transitions are Polling to one of
\* {Found, ExtendedWait, TimedOut, Aborted, error raised} and ExtendedWait
\* to one of {Found, TimedOut, Aborted, error raised}; Found, TimedOut and
\* Aborted have no outgoing transitions.
C15_DetectorTransitions ==
    [][DetState' # DetState => <<DetState, DetState'>> \in DetectorTransitions]_vars

\* the detector has just moved from ExtendedWait to Aborted
C15_Witness == pc = "finally" /\ DetState = "Aborted" /\ extra_wait_start # -1

\* C16: the outcome, once produced, and the found reference, once set, never
\* change; a reference found in the primary loop ends the polling, keeps
\* the extended wait from being entered, and is the value returned.
C16_OutcomeProducedOnce ==
    /\ [][outcome # "none" => (outcome' = outcome /\ ret' = ret)]_vars
    /\ [][img # None => img' = img]_vars
    /\ []((img # None /\ extra_wait_start = -1) =>
            /\ pc \in {"after_primary", "result", "finally", "done"}
            /\ outcome \in {"none", "Found"}
            /\ outcome = "Found" => ret = img)
    /\ [][(img # None /\ extra_wait_start = -1) => extra_wait_start' = -1]_vars

\* a reference found in the primary loop with the latch set, returned
C16_Witness ==
    /\ pc = "done" /\ outcome = "Found" /\ ret = img
    /\ obs.found_phase = "primary" /\ generation_started

\* C17 as stated: the prompt is submitted at most once per request: no
\* submit action is performed after one has been performed.
C17_SubmittedAtMostOnce == obs.submits <= 1

\* C18: the input-locator loop ends only with a recorded submission, which
\* a submit action preceded, or with all four candidates gone through;
\* without a recorded submission the request ends as InputNotFound,
\* returning None, and the detector never runs; polling is reached only
\* with a recorded submission.
C18_SubmittedOrInputNotFound ==
    /\ pc = "submit_end" => (input_found \/ sel = NumSelectors)
    /\ (pc = "submit_end" /\ input_found) => obs.submits >= 1
    /\ outcome = "InputNotFound" =>
          /\ ~input_found /\ sel = NumSelectors
          /\ start = -1 /\ extra_wait_start = -1 /\ img = None
          /\ ret = None /\ pc \in {"finally", "done"}
    /\ (pc \in PollPcs \cup ExtPcs \cup {"after_primary", "result"} \/ start # -1) =>
          (input_found /\ outcome # "InputNotFound")

\* InputNotFound on a live page on which no submit action was ever made
C18_Witness ==
    pc = "done" /\ outcome = "InputNotFound" /\ obs.submits = 0 /\ ~closed

\* C19: wait_for_cdp never raises; it returns true exactly at a probe that
\* is issued before the deadline and answered with 200, returns false only
\* once the deadline has passed, and a probe that fails (connection error,
\* timeout, other status) before the deadline is followed by the sleep and
\* the next test of the deadline.
C19_WaitForCdpBoolean ==
    /\ [](pc \in {"wait_cdp", "cdp_sleep"} => (outcome = "none" /\ ret # Err))
    /\ [][(pc = "wait_cdp" /\ pc' # pc) =>
            /\ ret' # Err
            /\ pc' = "connect" <=> (cdp_t < CDP_TIMEOUT_S * 1000 /\ endpoint = "up")
            /\ pc' = "done" <=> cdp_t >= CDP_TIMEOUT_S * 1000
            /\ pc' = "cdp_sleep" <=> (cdp_t < CDP_TIMEOUT_S * 1000 /\ endpoint # "up")
            /\ pc' = "done" => (outcome' = "CdpTimeout" /\ ret' = None)]_vars
    /\ [][pc = "cdp_sleep" => pc' \in {"cdp_sleep", "wait_cdp"}]_vars

\* wait_for_cdp returned false while the endpoint answered with another status
C19_Witness == outcome = "CdpTimeout" /\ endpoint = "non200"

\* C20: a failed attach ends the request at once with a failure: None is
\* returned, no session exists, no page was scanned, opened or touched, no
\* prompt was submitted, and connect_over_cdp is called once only.
C20_AttachFailureEnds ==
    /\ attach_attempts <= 1
    /\ outcome = "ConnectFailed" =>
          /\ pc = "done" /\ ret = None
          /\ browser = "none" /\ close_calls = 0
          /\ attach_attempts = 1
          /\ existing_images = {} /\ sel = 0 /\ ~input_found /\ obs.submits = 0
          /\ start = -1 /\ img = None

\* the attach failed against an endpoint that answers its probes
C20_Witness == outcome = "ConnectFailed" /\ endpoint = "up"

\* C27: the latch is false until polling has begun, becomes true exactly at a
\* primary-loop poll that went on past the gate and saw a loading indicator,
\* and once true stays true; no step of the extended wait changes it.
C27_LatchMonotone ==
    /\ [](start = -1 => ~generation_started)
    /\ [][start' # start => ~generation_started']_vars
    /\ [][generation_started => generation_started']_vars
    /\ [][(~generation_started /\ generation_started') =>
            (pc = "poll_indicators" /\ obs'.ind = "visible" /\ img' = None)]_vars
    /\ [][(pc = "poll_indicators" /\ pc' = "poll_screenshot" /\ obs'.ind = "visible") =>
            generation_started']_vars
    /\ [][(pc \in ExtPcs) => (generation_started' = generation_started)]_vars

\* in the extended wait, the latch still set after the indicator has gone
C27_Witness == pc \in ExtPcs /\ generation_started /\ obs.ind = "gone"

\* C28: no step of the extended wait reads the overlay; an extended-wait
\* poll that fetches a valid new reference sets img to one and ends as
\* Found whatever the overlay, so polling goes on only from polls that
\* fetched none.
C28_ExtendedWaitIgnoresOverlay ==
    /\ [][(pc \in ExtPcs) => (has_grid_pattern' = has_grid_pattern)]_vars
    /\ [](pc = "ext_sleep" => (obs.good = {} /\ img = None))
    /\ [](obs.found_phase = "extended" =>
            (img \in obs.good /\ outcome \in {"none", "Found"}))
    /\ []((obs.found_phase = "extended" /\ pc = "done") => ret = img)

\* Found in the extended wait with the overlay on the page
C28_Witness ==
    pc = "done" /\ outcome = "Found" /\ obs.found_phase = "extended" /\ obs.found_overlay

\* C25 as stated: on a platform without launch support, a request against an
\* endpoint that does not answer makes no attach attempt.
C25_NoAttachWithoutLaunchSupport ==
    ~(obs.platform = "other" /\ endpoint # "up" /\ attach_attempts > 0)

\* C25: on a platform without launch support no browser is launched and
\* wait_for_cdp is never entered, and the start-up check reports an endpoint
\* that does not answer as unavailable; a request goes straight to the
\* attach, and against an endpoint that does not answer that one attempt
\* fails and the request ends with no reference.
C25_NoLaunchWithoutSupport ==
    /\ obs.platform = "other" =>
         /\ ~obs.launched /\ ~obs.got200
         /\ pc \in {"connect", "done"}
         /\ outcome \in {"none", "ConnectFailed"}
    /\ (obs.platform = "other" /\ pc = "done") =>
         (outcome = "ConnectFailed" /\ ret = None /\ attach_attempts = 1 /\ browser = "none")
    /\ (obs.platform = "other" /\ pc = "connect") => attach_attempts = 0
    /\ \A e \in EndpointStates, waited \in BOOLEAN :
         ~ProbeOk(ProbeStatus(e)) => ~InitializeBraveConnection(FALSE, ProbeStatus(e), waited)

\* not Windows, the endpoint does not answer, and the attach was attempted
C25_Witness ==
    obs.platform = "other" /\ endpoint = "down" /\ attach_attempts = 1 /\
    outcome = "ConnectFailed"

C30_HiddenCandidateSkipped ==
    /\ [](sel <= NumSelectors)
    /\ [](obs.vis # "yes" =>
            (~obs.touched /\ obs.ctl = "none" /\ obs.clicked = 0 /\ ~obs.enter))
    /\ [](pc \in {"submit_ctl", "submit_enter"} => (obs.vis = "yes" /\ obs.touched))
    /\ [][sel' # sel => ((pc = "submit" /\ sel' = sel + 1) \/ sel' = 0)]_vars
    /\ [][(pc = "submit" /\ obs'.vis = "no") =>
            /\ ~input_found' /\ obs'.submits = obs.submits
            /\ pc' = IF sel' < NumSelectors THEN "submit" ELSE "submit_end"]_vars

\* the first candidate was found not visible and the second is up next
C30_Witness == pc = "submit" /\ sel = 1 /\ obs.vis = "no"

\* C21: the resolver settles on the first open page, in the order contexts
\* then pages, whose URL matches; it opens a page of its own, and settles on
\* that, exactly when no open page matches; a request has one target page.
C21_FirstMatchingPageIsTarget ==
    /\ obs.opened = 1 => obs.first_match = None
    /\ obs.first_match # None => (obs.page = obs.first_match /\ obs.opened = 0)
    /\ pc = "baseline" =>
         /\ obs.page # None
         /\ obs.page = IF obs.first_match # None THEN obs.first_match ELSE NewPage
         /\ obs.first_match = None => obs.opened = 1
    /\ obs.page # None => (pc \in {"baseline", "finally", "done"} /\ obs.opened <= 1)

\* a page that does not match was passed over for the one after it
C21_Witness == pc = "baseline" /\ obs.page = <<2, 2>> /\ obs.opened = 0

\* C22 as stated: the content type download_and_encode_image reports is the
\* header's when the header is an image media type; otherwise, the header
\* being another type or missing, a reference ending in .jpg or .jpeg gives
\* image/jpeg and one ending in .png gives image/png.
C22_HeaderElseExtension ==
    (route \in {"/generate-image", "/generate-image-raw"} /\ image_data # None) =>
        image_data.contentType =
            IF answer.ctype # None /\ StartsWithImage(answer.ctype) THEN answer.ctype
            ELSE IF EndsWith(image_url, ".jpg") \/ EndsWith(image_url, ".jpeg") THEN ImageJpeg
            ELSE IF EndsWith(image_url, ".png") THEN ImagePng
            ELSE image_data.contentType

\* the download of a returned reference failed
DownloadFailed ==
    hpc \in {"downloaded", "responded"} /\ image_url \notin {None, Err} /\ ~FetchOk(answer)

\* the response of a handler whose call of the function returned None
NoReferenceResponse(rt) == RouteResponse(rt, None, None)

\* C23: a failed download (the request raised, or the status was not a
\* success) leaves the handler with no image data and with a response, and
\* that response is not the one the same handler gives when the function
\* returned no reference, nor does it carry that one's error code.
C23_DownloadFailureDistinct ==
    /\ DownloadFailed => image_data = None
    /\ (DownloadFailed /\ hpc = "responded") =>
         /\ response # None
         /\ response # NoReferenceResponse(route)
         /\ response.error # NoReferenceResponse(route).error
    /\ (hpc = "responded" /\ image_url = None) =>
         (response = NoReferenceResponse(route) /\ response.status = 500)
    /\ hpc = "responded" => response # None

\* /generate-image answered after the download came back with 404
C23_Witness ==
    hpc = "responded" /\ route = "/generate-image" /\ DownloadFailed /\
    answer.status = 404 /\ response.status = 200

\* C24 as stated: whatever the entry point, the prompt passed to the
\* function is at most 8000 characters long.
C24_EnginePromptCapped ==
    hpc # "resolved" => PLen(engine_prompt) <= MAX_PROMPT_LENGTH

\* the request has captured its baseline and has no outcome yet
InFlight(r) == req[r].pc \in {"submit", "poll"}

\* C26: no step of a request waits for the other request: whatever the
\* other is doing, a request that has not ended can take its next step; when
\* a matching page is open, every request resolves to that page and no page
\* is opened; a submission changes the page of every request that resolved
\* to the same page.
C26_NoSerialization ==
    /\ [](\A r \in Requests : req[r].pc # "done" => ENABLED RaceRequest(r))
    /\ []((\E i \in 1..Len(tabs) : \E j \in 1..Len(tabs[i]) : tabs[i][j].url = HomeUrl) =>
            /\ Len(tabs) = 1
            /\ \A r \in Requests :
                 req[r].page \in {None, ScanContexts(UrlsOf(tabs), 1)})
    /\ [][\A r \in Requests :
            (req[r].pc = "submit" /\ req'[r].pc = "poll") =>
                \A q \in Requests :
                    req[q].page = req[r].page => PageOf(tabs', q) # PageOf(tabs, q)]_vars

\* both requests on the same page, open before either came, both past their
\* baseline and without an outcome, the second polling a page that the
\* first has submitted to since
C26_Witness ==
    /\ req[1].page = req[2].page
    /\ InFlight(1) /\ InFlight(2)
    /\ req[2].pc = "poll" /\ req[1].pc = "poll"
    /\ PageOf(tabs, 1).url = HomeUrl
    /\ PageOf(tabs, 2).prompts = <<2, 1>>


\* C31: the per-character delay of the typing fallback lies in [5, 20] ms for
\* every prompt length, 0 included; it is non-increasing in the length (no
\* shorter prompt is typed faster); it is 20 for lengths up to 50 and 5 for
\* lengths of 200 or more.
C31_DelayBoundedNonIncreasing ==
    delay_ms # -1 =>
        /\ delay_ms >= 5 /\ delay_ms <= 20
        /\ \A m \in 0..prompt_len : DelayMs(m) >= delay_ms
        /\ (prompt_len <= 50 => delay_ms = 20)
        /\ (prompt_len >= 200 => delay_ms = 5)

\* the fallback has typed a prompt of a length between the two plateaus
C31_Witness == delay_ms # -1 /\ prompt_len > 50 /\ prompt_len < 200 /\ delay_ms < 20 /\ delay_ms > 5

\* C32: the browser launch is made exactly when line 156 read a platform
\* with launch support and the first probe was not answered with 200, and
\* nowhere else in the request; the launch is followed by wait_for_cdp with
\* its clock at 0; the wait returns false only once 20 seconds have gone
\* by, and the request then ends with no reference and no attach attempted.
C32_LaunchIffProbeFailed ==
    /\ [][ /\ (pc = "start" /\ pc' # "start") =>
                /\ pc' \in {"launch", "connect"}
                /\ (pc' = "launch") <=>
                     (obs'.platform = "win" /\ ProbeStatus(endpoint) # 200)
           /\ (pc' = "launch" /\ pc # "launch") => (pc = "start")
           /\ (pc = "launch" /\ pc' # "launch") => (pc' = "wait_cdp" /\ cdp_t' = 0)
           /\ (pc \in {"wait_cdp", "cdp_sleep"} /\ pc' = "done") =>
                (cdp_t >= 20 * 1000 /\ outcome' = "CdpTimeout")
         ]_vars
    /\ [](pc \in {"launch", "wait_cdp", "cdp_sleep"} =>
            (obs.platform = "win" /\ attach_attempts = 0))
    /\ [](outcome = "CdpTimeout" =>
            (pc = "done" /\ ret = None /\ attach_attempts = 0 /\ browser = "none"))

\* the wait after a launch returned false and the request has ended
C32_Witness ==
    pc = "done" /\ outcome = "CdpTimeout" /\ obs.platform = "win" /\ cdp_t >= 20 * 1000

\* C33 as stated: after a launch whose Popen failed the request does not get
\* to the attach; it ends as not available.
C33_SpawnFailureEndsUnavailable ==
    ~(pc = "connect" /\ obs.platform = "win" /\ obs.got200 /\ ~obs.launched)

\* C33: a Popen that fails raises nothing out of launch_brave_windows: the
\* request goes on to wait_for_cdp with no outcome set, the wait runs its
\* 20 seconds unless a probe is answered with 200, the request ends with no
\* reference and no attach attempted (not available) when the wait returns
\* false, and goes on to the attach, as after a launch that spawned, when a
\* probe of the wait was answered with 200; no exception leaves the
\* function before the attach.
C33_SpawnFailureNotRaised ==
    /\ [][ /\ (pc = "launch" /\ pc' # "launch" /\ ~obs'.launched) =>
                (pc' = "wait_cdp" /\ outcome' = "none" /\ ret' = ret)
           /\ (pc \in {"wait_cdp", "cdp_sleep"} /\ ~obs.launched /\ pc' = "done") =>
                (cdp_t >= 20 * 1000 /\ ~obs.got200 /\ outcome' = "CdpTimeout" /\ ret' = None)
           /\ (pc \in {"wait_cdp", "cdp_sleep"} /\ ~obs.launched /\ pc' = "connect") =>
                (endpoint = "up" /\ obs'.got200 /\ outcome' = "none")
         ]_vars
    /\ [](pc \in {"wait_cdp", "cdp_sleep"} => (outcome = "none" /\ attach_attempts = 0))
    /\ [](outcome = "Raised" => attach_attempts > 0)

\* the Popen failed, no probe was answered, and the request ended with no
\* reference
C33_Witness ==
    pc = "done" /\ outcome = "CdpTimeout" /\ obs.platform = "win" /\ ~obs.launched /\
    ret = None /\ attach_attempts = 0

\* C34: the screenshot step of a poll, whether the capture is skipped, made
\* or fails, leaves the found reference, the latch, the baseline set, the
\* overlay flag, the session and the outcome as they were and always goes on
\* to the sleep of the poll; a capture is made only when more than 3 seconds
\* have gone by since the last one made, and the time of a capture is
\* recorded nowhere but in this step.
C34_ScreenshotIsDiagnostic ==
    [][ /\ (pc = "poll_screenshot" /\ pc' # "poll_screenshot") =>
            /\ pc' = "poll_sleep"
            /\ img' = img
            /\ generation_started' = generation_started
            /\ existing_images' = existing_images
            /\ has_grid_pattern' = has_grid_pattern
            /\ outcome' = outcome /\ ret' = ret
            /\ browser' = browser /\ closed' = closed /\ now' = now
       /\ (last_save' # last_save) =>
            /\ pc = "poll_screenshot"
            /\ last_save' = now
            /\ now - last_save > 3 * 1000
     ]_vars

\* a capture was made in an earlier poll and the one of this poll was skipped
\* or failed
C34_Witness ==
    /\ pc = "poll_sleep" /\ last_save > 0 /\ now > last_save
    /\ now - last_save <= 3 * 1000

\* C35: existing_images is assigned in the baseline capture and nowhere
\* else: it is empty before the capture, the capture is made once, coming
\* from the page resolver, with no candidate of the input loop looked at, no
\* element touched and no submit action made, and no step of the
\* submission, of the primary loop or of the extended wait changes the set.
C35_BaselineBeforeSubmitThenFrozen ==
    /\ [][ /\ (existing_images' # existing_images) => (pc = "baseline")
           /\ (pc' = "baseline" /\ pc # "baseline") => (pc = "resolve")
           /\ (pc = "baseline" /\ pc' # "baseline") => (pc' = "submit")
         ]_vars
    /\ [](pc \in {"start", "launch", "wait_cdp", "cdp_sleep", "connect", "resolve",
                   "baseline"} =>
            /\ existing_images = {}
            /\ sel = 0 /\ ~input_found /\ ~submitted
            /\ obs.submits = 0 /\ ~obs.touched /\ obs.clicked = 0 /\ ~obs.enter)

\* a poll of the extended wait has fetched a reference of the baseline and a
\* new one, and the baseline is what the capture made it
C35_Witness ==
    pc = "ext_sleep" /\ existing_images # {} /\ obs.stale /\ obs.bad_ext

\* C36 as stated: a reference of a recognized domain that was on the page
\* when the baseline was captured is never the reference returned as Found,
\* also when a get_attribute of the capture raised part-way through.
C36_OnPageAtBaselineNeverFound ==
    ~(outcome = "Found" /\ obs.cut # None /\ ret = obs.cut)

\* the element at place i of the scanned result carries a reference that was
\* fetched, is not in the baseline and ends in .png, .jpg or .jpeg
ValidNewAt(i) ==
    LET a == img_elements[i].attr
    IN /\ a # None /\ a # Err
       /\ a \notin scan_existing
       /\ a[Len(a)] \in {".png", ".jpg", ".jpeg"}

\* the element at place i carries a new reference of another extension
BadNewAt(i) ==
    LET a == img_elements[i].attr
    IN /\ a # None /\ a # Err
       /\ a \notin scan_existing
       /\ a[Len(a)] \notin {".png", ".jpg", ".jpeg"}

\* C37: the candidate of a scan is the reference of the first element, in
\* element order, that carries a valid new reference, whatever comes before
\* it: new references failing the extension check, references of the
\* baseline, elements without src or whose read raises; there is no
\* candidate exactly when no element carries a valid new reference.
C37_FirstValidNewInOrder ==
    scanned =>
        LET ok == {i \in 1..Len(img_elements) : ValidNewAt(i)}
        IN /\ (ok = {}) => (current_img = None)
           /\ (ok # {}) =>
                \E k \in ok : /\ \A j \in ok : k <= j
                              /\ current_img = img_elements[k].attr

\* a new reference failing the extension check came first, a valid new one
\* after it, and the latter is the candidate
C37_Witness ==
    /\ scanned /\ Len(img_elements) >= 2
    /\ BadNewAt(1) /\ ValidNewAt(2)
    /\ current_img = img_elements[2].attr

\* C38 as stated: when a handler has answered, the event loop it made for
\* the generation request is closed, whatever the call of the function came
\* to.
C38_LoopClosedOnEveryExit ==
    hpc = "responded" => loop = "closed"

====
